---- MODULE Spec2Model ----
(***************************************************************************)
(* Model of obsidian_publisher's content transformation engine:            *)
(* core/processor.py (LinkIndex, ContentProcessor) and                     *)
(* transforms/frontmatter.py.                                              *)
(*                                                                         *)
(* A Python str is a sequence of one-character strings, so that the        *)
(* regular expressions, str.strip, str.lower, str.split, pathlib's         *)
(* stem/suffix and inflection.parameterize are computed character by       *)
(* character as the code computes them.                                    *)
(***************************************************************************)
EXTENDS Integers, Sequences, FiniteSets, TLC

VARIABLES
    link_index,         \* ContentProcessor.link_index (LinkIndex)
    cfg,                \* the other constructor arguments of ContentProcessor
    note,               \* the NoteMetadata given to process(), with the text read_raw() returns
    segs,               \* how the author wrote the body: text runs, wikilinks, image embeds
    pc,                 \* position inside process()
    content,            \* local `content` of process()
    referenced_images,  \* local `referenced_images` of process() (a set)
    missing_links,      \* local `missing_links` of process() (a list)
    processed_tags,     \* local `processed_tags` of process()
    processed,          \* the ProcessedNote built at line 124 (valid once pc is past it)
    fm_call,            \* arguments of the frontmatter_transform call at line 134
    output,             \* what build_output(processed) returned, once it was called
    other,              \* the frame of a second process() call on the same processor
    discovery           \* a VaultDiscovery, the vault it reads and its last call

vars == <<link_index, cfg, note, segs, pc, content, referenced_images,
          missing_links, processed_tags, processed, fm_call, output, other, discovery>>

-----------------------------------------------------------------------------
(* Python str primitives.                                                  *)

UpperLetters == <<"A","B","C","D","E","F","G","H","I","J","K","L","M",
                  "N","O","P","Q","R","S","T","U","V","W","X","Y","Z">>
LowerLetters == <<"a","b","c","d","e","f","g","h","i","j","k","l","m",
                  "n","o","p","q","r","s","t","u","v","w","x","y","z">>
Digits == {"0","1","2","3","4","5","6","7","8","9"}
UpperSet == {UpperLetters[i] : i \in 1..26}
LowerSet == {LowerLetters[i] : i \in 1..26}
Whitespace == {" ", "\n", "\t", "\r"}

lowerOf == [c \in UpperSet |-> LowerLetters[CHOOSE i \in 1..26 : UpperLetters[i] = c]]

\* str.lower() on one character
LowerChar(c) == IF c \in UpperSet THEN lowerOf[c] ELSE c

RECURSIVE str_lower(_)
\* str.lower()
str_lower(s) ==
    IF s = <<>> THEN <<>> ELSE <<LowerChar(Head(s))>> \o str_lower(Tail(s))

RECURSIVE Concat(_)
\* "".join(list of str)
Concat(ss) == IF ss = <<>> THEN <<>> ELSE Head(ss) \o Concat(Tail(ss))

\* s[i-1:j-1] of Python, as the 1-based closed range i..j
Slice(s, i, j) == IF i > j THEN <<>> ELSE SubSeq(s, i, j)

\* s.startswith(p)
startswith(s, p) == Len(s) >= Len(p) /\ SubSeq(s, 1, Len(p)) = p

\* s.endswith(p)
endswith(s, p) == Len(s) >= Len(p) /\ SubSeq(s, Len(s) - Len(p) + 1, Len(s)) = p

\* p occurs in s at 1-based position i
OccursAt(s, p, i) == i >= 1 /\ i + Len(p) - 1 <= Len(s) /\ SubSeq(s, i, i + Len(p) - 1) = p

\* `p in s` for strings
Contains(s, p) == \E i \in 1..(Len(s) + 1) : OccursAt(s, p, i)

\* s.find(p) as a 1-based position, 0 when absent
Find(s, p) ==
    IF Contains(s, p)
    THEN CHOOSE i \in 1..(Len(s) + 1) :
            OccursAt(s, p, i) /\ \A k \in 1..(i - 1) : ~OccursAt(s, p, k)
    ELSE 0

\* s.strip(): leading and trailing whitespace removed
strip(s) ==
    IF \A i \in 1..Len(s) : s[i] \in Whitespace THEN <<>>
    ELSE LET a == CHOOSE i \in 1..Len(s) :
                     s[i] \notin Whitespace /\ \A k \in 1..(i - 1) : s[k] \in Whitespace
             b == CHOOSE i \in 1..Len(s) :
                     s[i] \notin Whitespace /\ \A k \in (i + 1)..Len(s) : s[k] \in Whitespace
         IN SubSeq(s, a, b)

RECURSIVE rstrip(_, _)
\* s.rstrip(chars)
rstrip(s, chars) ==
    IF s # <<>> /\ s[Len(s)] \in chars THEN rstrip(SubSeq(s, 1, Len(s) - 1), chars) ELSE s

\* s.rfind(c) for one character, 1-based, 0 when absent
rfind(s, c) ==
    IF \E i \in 1..Len(s) : s[i] = c
    THEN CHOOSE i \in 1..Len(s) : s[i] = c /\ \A k \in (i + 1)..Len(s) : s[k] # c
    ELSE 0

-----------------------------------------------------------------------------
(* inflection.parameterize(string), separator "-": every run of characters  *)
(* outside [A-Za-z0-9_-] becomes one "-", runs of "-" are squeezed, one     *)
(* leading and one trailing "-" are removed, the result is lower-cased.     *)

SlugChars == UpperSet \cup LowerSet \cup Digits \cup {"-", "_"}

RECURSIVE ParamSqueeze(_)
ParamSqueeze(s) ==
    IF s = <<>> THEN <<>>
    ELSE LET c == IF Head(s) \in SlugChars THEN Head(s) ELSE "-"
             rest == ParamSqueeze(Tail(s))
         IN IF c = "-" /\ rest # <<>> /\ Head(rest) = "-" THEN rest ELSE <<c>> \o rest

parameterize(s) ==
    LET q == ParamSqueeze(s)
        a == IF q # <<>> /\ Head(q) = "-" THEN Tail(q) ELSE q
        b == IF a # <<>> /\ a[Len(a)] = "-" THEN SubSeq(a, 1, Len(a) - 1) ELSE a
    IN str_lower(b)

-----------------------------------------------------------------------------
(* pathlib.Path(s).name / .stem / .suffix (POSIX flavour).                  *)

\* the last path component; empty and "." components are dropped by the parser
RECURSIVE PathName(_)
PathName(s) ==
    LET i == rfind(s, "/")
        last == Slice(s, i + 1, Len(s))
    IN IF s = <<>> THEN <<>>
       ELSE IF last = <<>> \/ last = <<".">> THEN PathName(SubSeq(s, 1, IF i = 0 THEN 0 ELSE i - 1))
       ELSE last

PathSuffix(s) ==
    LET name == PathName(s)
        i == rfind(name, ".")
    IN IF 1 < i /\ i < Len(name) THEN SubSeq(name, i, Len(name)) ELSE <<>>

PathStem(s) ==
    LET name == PathName(s)
        i == rfind(name, ".")
    IN IF 1 < i /\ i < Len(name) THEN SubSeq(name, 1, i - 1) ELSE name

-----------------------------------------------------------------------------
(* transforms/links.py: the built-in Link Renderers, and two callables a    *)
(* site may supply (LinkTransform is any (text, slug) -> str).              *)

LB == "["
RB == "]"
Q == "\""

\* relative_link(): [text](slug.md)
relative_link(text, slug) == <<LB>> \o text \o <<RB, "(">> \o slug \o <<".", "m", "d", ")">>

\* absolute_link(prefix): [text](prefix/slug)
absolute_link(prefix, text, slug) ==
    <<LB>> \o text \o <<RB, "(">> \o prefix \o <<"/">> \o slug \o <<")">>

\* hugo_ref(): [text]({{< ref "slug" >}})
hugo_ref(text, slug) ==
    <<LB>> \o text \o <<RB, "(", "{", "{", "<", " ", "r", "e", "f", " ", Q>> \o slug
        \o <<Q, " ", ">", "}", "}", ")">>

\* a site's callable: [text](slug){.w}   (markdown link with an attribute list)
attr_link(text, slug) == <<LB>> \o text \o <<RB, "(">> \o slug \o <<")", "{", ".", "w", "}">>

\* a site's callable: <slug>   (autolink, no parenthesis)
auto_link(text, slug) == <<"<">> \o slug \o <<">">>

\* self.link_transform(link_text, slug)
link_transform(lt, text, slug) ==
    CASE lt.kind = "relative" -> relative_link(text, slug)
      [] lt.kind = "absolute" -> absolute_link(lt.prefix, text, slug)
      [] lt.kind = "hugo_ref" -> hugo_ref(text, slug)
      [] lt.kind = "attr" -> attr_link(text, slug)
      [] lt.kind = "auto" -> auto_link(text, slug)

-----------------------------------------------------------------------------
(* LinkIndex.                                                               *)

NotFound == [found |-> FALSE, slug |-> <<>>]

\* dict.get(key): the value stored last for the key, None when absent.
\* A dict is kept as the sequence of its assignments <<key, value>>.
RECURSIVE dict_get(_, _)
dict_get(d, k) ==
    IF d = <<>> THEN NotFound
    ELSE IF d[Len(d)][1] = k THEN [found |-> TRUE, slug |-> d[Len(d)][2]]
    ELSE dict_get(SubSeq(d, 1, Len(d) - 1), k)

RECURSIVE MapPairs(_, _)
\* the assignments of a dict built from `data`, in order; low = TRUE lower-cases the
\* title key, low = FALSE builds the inverse (slug -> title)
MapPairs(data, low) ==
    IF data = <<>> THEN <<>>
    ELSE <<IF low THEN <<str_lower(Head(data)[1]), Head(data)[2]>>
                  ELSE <<Head(data)[2], Head(data)[1]>> >> \o MapPairs(Tail(data), low)

\* the title keys stored as given, not lower-cased
from_dict_keepcase(data) ==
    [title_to_slug |-> data, slug_to_title |-> MapPairs(data, FALSE)]

\* LinkIndex.from_dict(data); data is the sequence of (title, slug) items
from_dict(data) ==
    [title_to_slug |-> MapPairs(data, TRUE), slug_to_title |-> MapPairs(data, FALSE)]

RECURSIVE NoteItems(_)
NoteItems(notes) ==
    IF notes = <<>> THEN <<>>
    ELSE << <<Head(notes).title, Head(notes).slug>> >> \o NoteItems(Tail(notes))

\* LinkIndex.from_notes(notes): the same two assignments per note, in order
from_notes(notes) == from_dict(NoteItems(notes))

\* a lookup of the title as given, not lower-cased
get_slug_exact(idx, title) == dict_get(idx.title_to_slug, title)

\* LinkIndex.get_slug(title)
get_slug(idx, title) == dict_get(idx.title_to_slug, str_lower(title))

-----------------------------------------------------------------------------
(* The two regular expressions, matched as Python's re does: leftmost,      *)
(* greedy, backtracking.                                                    *)

IMAGE_EXTS == << <<".","p","n","g">>, <<".","j","p","g">>, <<".","j","p","e","g">>,
                 <<".","g","i","f">>, <<".","w","e","b","p">>, <<".","s","v","g">> >>

NoMatch == [ok |-> FALSE, stop |-> 0, g1 |-> <<>>, g2 |-> <<>>]

\* first position >= i holding a character of `excl`, Len(s) + 1 if none:
\* where a greedy [^excl]+ starting at i stops
RunEnd(s, i, excl) ==
    CHOOSE j \in i..(Len(s) + 1) :
        /\ (j = Len(s) + 1 \/ s[j] \in excl)
        /\ \A k \in i..(j - 1) : s[k] \notin excl

\* (?:\|([^\]]+))?\]\]  at position j, group 1 being g1.  stop is the position
\* after the match.  group 2 is <<>> when it did not take part (None).
TailMatch(s, j, g1) ==
    IF j <= Len(s) /\ s[j] = "|"
    THEN LET k == RunEnd(s, j + 1, {RB})
         IN IF k > j + 1 /\ OccursAt(s, <<RB, RB>>, k)
            THEN [ok |-> TRUE, stop |-> k + 2, g1 |-> g1, g2 |-> SubSeq(s, j + 1, k - 1)]
            ELSE NoMatch
    ELSE IF OccursAt(s, <<RB, RB>>, j)
    THEN [ok |-> TRUE, stop |-> j + 2, g1 |-> g1, g2 |-> <<>>]
    ELSE NoMatch

\* WIKILINK_PATTERN.match(s, i):  \[\[([^\]|]+)(?:\|([^\]]+))?\]\]
WIKILINK_PATTERN(s, i) ==
    IF ~OccursAt(s, <<LB, LB>>, i) THEN NoMatch
    ELSE LET j == RunEnd(s, i + 2, {RB, "|"})
         IN IF j = i + 2 THEN NoMatch ELSE TailMatch(s, j, SubSeq(s, i + 2, j - 1))

\* name ends in one of the image extensions, letter case ignored
HasImageExt(name) == \E e \in 1..Len(IMAGE_EXTS) : endswith(str_lower(name), IMAGE_EXTS[e])

\* IMAGE_EMBED_PATTERN.match(s, i), re.IGNORECASE:
\*   !\[\[([^\]|]+\.(?:png|jpg|jpeg|gif|webp|svg))(?:\|([^\]]+))?\]\]
\* The extension must end where the run of [^\]|] ends, with >= 1 character before it.
IMAGE_EMBED_PATTERN(s, i) ==
    IF ~OccursAt(s, <<"!", LB, LB>>, i) THEN NoMatch
    ELSE LET j == RunEnd(s, i + 3, {RB, "|"})
             run == Slice(s, i + 3, j - 1)
         IN IF \E e \in 1..Len(IMAGE_EXTS) :
                   endswith(str_lower(run), IMAGE_EXTS[e]) /\ Len(run) > Len(IMAGE_EXTS[e])
            THEN TailMatch(s, j, run)
            ELSE NoMatch

-----------------------------------------------------------------------------
(* ContentProcessor: the body passes.  c is the processor's configuration   *)
(* (the fields of self), idx its link_index.                                          *)

\* `a or b` on strings: None and "" are both falsy
StrOr(a, b) == IF a # <<>> THEN a ELSE b

\* markup that is itself an embed of the published file: ![[prefix/slug.ext|alt]]
ImageMarkup_embed(c, name, alt) ==
    LET alt_text == StrOr(alt, PathStem(name))
        slug == parameterize(PathStem(name))
        ext == StrOr(c.output_image_extension, str_lower(PathSuffix(name)))
        alt_slug == parameterize(alt_text)
    IN <<"!", LB, LB>> \o c.image_path_prefix \o <<"/">> \o slug \o ext
           \o <<"|">> \o alt_slug \o <<RB, RB>>

\* f"![{alt_slug}]({self.image_path_prefix}/{slug}{ext})" of lines 173-178 and 200-205
ImageMarkup(c, name, alt) ==
    LET alt_text == StrOr(alt, PathStem(name))
        slug == parameterize(PathStem(name))
        ext == StrOr(c.output_image_extension, str_lower(PathSuffix(name)))
        alt_slug == parameterize(alt_text)
    IN <<"!", LB>> \o alt_slug \o <<RB, "(">> \o c.image_path_prefix \o <<"/">>
           \o slug \o ext \o <<")">>

\* replace_image that records the file name without its folder
replace_image_name(c, m) == [text |-> ImageMarkup(c, m.g1, m.g2), image |-> PathName(m.g1)]

\* _process_images.replace_image(match): the markup, and the name added to `images`
replace_image(c, m) == [text |-> ImageMarkup(c, m.g1, m.g2), image |-> m.g1]

RECURSIVE ImageSub(_, _, _)
\* IMAGE_EMBED_PATTERN.sub(replace_image, s) from position i on: the text up to the
\* leftmost match is kept, the match is replaced, the scan resumes where it ended
ImageSub(c, s, i) ==
    LET hits == { j \in i..Len(s) : IMAGE_EMBED_PATTERN(s, j).ok }
    IN IF hits = {} THEN [result |-> Slice(s, i, Len(s)), images |-> {}]
       ELSE LET j == CHOOSE x \in hits : \A y \in hits : x <= y
                m == IMAGE_EMBED_PATTERN(s, j)
                r == replace_image(c, m)
                rest == ImageSub(c, s, m.stop)
            IN [result |-> Slice(s, i, j - 1) \o r.text \o rest.result,
                images |-> {r.image} \cup rest.images]

\* ContentProcessor._process_images(content) -> (result, images)
_process_images(c, s) == ImageSub(c, s, 1)

\* result[:-1] + f"#{section_slug})" when there is a section and ")" in result
SectionAnchor(result, section) ==
    IF section # <<>> /\ Contains(result, <<")">>)
    THEN SubSeq(result, 1, Len(result) - 1) \o <<"#">> \o parameterize(section) \o <<")">>
    ELSE result

\* replace_link that computes the fallback slug only inside `if self.warn_on_missing_link`
replace_link_warnslug(c, idx, m) ==
    LET target == strip(m.g1)
        h == Find(target, <<"#">>)
        section == IF h = 0 THEN <<>> ELSE Slice(target, h + 1, Len(target))
        note_target == IF h = 0 THEN target ELSE strip(Slice(target, 1, h - 1))
        hit == get_slug(idx, note_target)
        slug == IF hit.found THEN hit.slug
                ELSE IF c.warn_on_missing_link THEN parameterize(note_target) ELSE <<>>
    IN IF HasImageExt(target)
       THEN [text |-> ImageMarkup(c, target, m.g2), missing |-> <<>>]
       ELSE [text |-> SectionAnchor(link_transform(c.link_transform,
                                                   StrOr(m.g2, note_target), slug), section),
             missing |-> IF ~hit.found /\ c.warn_on_missing_link
                         THEN <<note_target>> ELSE <<>>]

\* replace_link that rejects a link with an empty note-target: what it hands back is
\* the exception, not markup
replace_link_raising(c, idx, m) ==
    LET target == strip(m.g1)
        display == m.g2
        h == Find(target, <<"#">>)
        section == IF h = 0 THEN <<>> ELSE Slice(target, h + 1, Len(target))
        note_target == IF h = 0 THEN target ELSE strip(Slice(target, 1, h - 1))
        hit == get_slug(idx, note_target)
        slug == IF hit.found THEN hit.slug ELSE parameterize(note_target)
        link_text == StrOr(display, note_target)
    IN IF HasImageExt(target)
       THEN [text |-> ImageMarkup(c, target, display), missing |-> <<>>]
       ELSE IF note_target = <<>>
       THEN [text |-> <<"ValueError">>, missing |-> <<>>]
       ELSE [text |-> SectionAnchor(link_transform(c.link_transform, link_text, slug), section),
             missing |-> IF ~hit.found /\ c.warn_on_missing_link
                         THEN <<note_target>> ELSE <<>>]

\* _process_wikilinks.replace_link(match): the markup, and what it appends to missing_links
replace_link(c, idx, m) ==
    LET target == strip(m.g1)
        display == m.g2
        h == Find(target, <<"#">>)
        section == IF h = 0 THEN <<>> ELSE Slice(target, h + 1, Len(target))
        note_target == IF h = 0 THEN target ELSE strip(Slice(target, 1, h - 1))
        hit == get_slug(idx, note_target)
        slug == IF hit.found THEN hit.slug ELSE parameterize(note_target)
        link_text == StrOr(display, note_target)
    IN IF HasImageExt(target)
       THEN [text |-> ImageMarkup(c, target, display), missing |-> <<>>]
       ELSE [text |-> SectionAnchor(link_transform(c.link_transform, link_text, slug), section),
             missing |-> IF ~hit.found /\ c.warn_on_missing_link
                         THEN <<note_target>> ELSE <<>>]

RECURSIVE LinkSub_skip(_, _, _, _)
\* the substitution resuming one character too far after a match
LinkSub_skip(c, idx, s, i) ==
    LET hits == { j \in i..Len(s) : WIKILINK_PATTERN(s, j).ok }
    IN IF hits = {} THEN [result |-> Slice(s, i, Len(s)), missing_links |-> <<>>]
       ELSE LET j == CHOOSE x \in hits : \A y \in hits : x <= y
                m == WIKILINK_PATTERN(s, j)
                r == replace_link(c, idx, m)
                rest == LinkSub_skip(c, idx, s, m.stop + 1)
            IN [result |-> Slice(s, i, j - 1) \o r.text \o rest.result,
                missing_links |-> r.missing \o rest.missing_links]

RECURSIVE LinkSub(_, _, _, _)
\* WIKILINK_PATTERN.sub(replace_link, s) from position i on: the text up to the
\* leftmost match is kept, the match is replaced, the scan resumes where it ended
LinkSub(c, idx, s, i) ==
    LET hits == { j \in i..Len(s) : WIKILINK_PATTERN(s, j).ok }
    IN IF hits = {} THEN [result |-> Slice(s, i, Len(s)), missing_links |-> <<>>]
       ELSE LET j == CHOOSE x \in hits : \A y \in hits : x <= y
                m == WIKILINK_PATTERN(s, j)
                r == replace_link(c, idx, m)
                rest == LinkSub(c, idx, s, m.stop)
            IN [result |-> Slice(s, i, j - 1) \o r.text \o rest.result,
                missing_links |-> r.missing \o rest.missing_links]

\* ContentProcessor._process_wikilinks(content) -> (result, missing_links)
_process_wikilinks(c, idx, s) == LinkSub(c, idx, s, 1)

DELIM == <<"-", "-", "-">>
DELIM_NL == <<"-", "-", "-", "\n">>

\* ContentProcessor._extract_content(raw_content)
_extract_content(raw) ==
    IF ~startswith(raw, DELIM) THEN raw
    ELSE LET a == Find(raw, DELIM_NL)
             rest == IF a = 0 THEN <<>> ELSE Slice(raw, a + 4, Len(raw))
             b == Find(rest, DELIM_NL)
         IN IF a # 0 /\ b # 0 THEN Slice(rest, b + 4, Len(rest)) ELSE raw

-----------------------------------------------------------------------------
(* transforms/tags.py: Tag Rewriters.  A rewriter is a pipeline (compose)   *)
(* of steps; [kind |-> "none"] stands for tag_transform=None.               *)

RECURSIVE str_replace(_, _, _)
\* s.replace(old, new), old non-empty
str_replace(s, old, new) ==
    IF s = <<>> THEN <<>>
    ELSE IF startswith(s, old) THEN new \o str_replace(Slice(s, Len(old) + 1, Len(s)), old, new)
    ELSE <<Head(s)>> \o str_replace(Tail(s), old, new)

RECURSIVE filter_by_prefix(_, _)
\* filter_by_prefix(*prefixes)(tags): the tags starting with some prefix, in order
filter_by_prefix(prefixes, tags) ==
    IF tags = <<>> THEN <<>>
    ELSE (IF \E p \in prefixes : startswith(Head(tags), p) THEN <<Head(tags)>> ELSE <<>>)
             \o filter_by_prefix(prefixes, Tail(tags))

RECURSIVE replace_separator(_, _, _)
\* replace_separator(old, new)(tags)
replace_separator(old, new, tags) ==
    IF tags = <<>> THEN <<>>
    ELSE <<str_replace(Head(tags), old, new)>> \o replace_separator(old, new, Tail(tags))

TagStep(st, tags) ==
    CASE st.kind = "identity" -> tags
      [] st.kind = "filter_by_prefix" -> filter_by_prefix(st.prefixes, tags)
      [] st.kind = "replace_separator" -> replace_separator(st.old, st.new, tags)

RECURSIVE compose(_, _)
\* compose(*transforms)(tags): the steps applied left to right
compose(steps, tags) ==
    IF steps = <<>> THEN tags ELSE compose(Tail(steps), TagStep(Head(steps), tags))

-----------------------------------------------------------------------------
(* transforms/frontmatter.py: Frontmatter Rewriters.  A mapping is a        *)
(* function from keys to values [t |-> "str" | "list", v |-> ...].          *)

K_title == <<"t","i","t","l","e">>
K_date == <<"d","a","t","e">>
K_doc == <<"d","o","c">>
K_author == <<"a","u","t","h","o","r">>
K_tags == <<"t","a","g","s">>

StrVal(s) == [t |-> "str", v |-> s]
ListVal(l) == [t |-> "list", v |-> l]
EmptyDict == [k \in {} |-> StrVal(<<>>)]

\* d restricted to the keys in ks
Restrict(d, ks) == [k \in DOMAIN d \cap ks |-> d[k]]

\* dict.update: b's entries set over a's
Update(a, b) == [k \in DOMAIN a \cup DOMAIN b |-> IF k \in DOMAIN b THEN b[k] ELSE a[k]]

\* identity()(fm, processed)
fm_identity(fm, p) == fm

\* the deny-list looked at first
prune_and_add_denyfirst(t, fm, p) ==
    LET result == IF t.remove_keys.given THEN Restrict(fm, DOMAIN fm \ t.remove_keys.keys)
                  ELSE IF t.keep_keys.given THEN Restrict(fm, t.keep_keys.keys)
                  ELSE fm
    IN IF DOMAIN t.add_fields # {} THEN Update(result, t.add_fields) ELSE result

\* prune_and_add(keep_keys, remove_keys, add_fields)(fm, processed)
prune_and_add(t, fm, p) ==
    LET result == IF t.keep_keys.given THEN Restrict(fm, t.keep_keys.keys)
                  ELSE IF t.remove_keys.given THEN Restrict(fm, DOMAIN fm \ t.remove_keys.keys)
                  ELSE fm
    IN IF DOMAIN t.add_fields # {} THEN Update(result, t.add_fields) ELSE result

RECURSIVE CapWords(_, _)
\* titlecase.titlecase on plain words: the first letter of each word is capitalized
CapWords(s, atStart) ==
    IF s = <<>> THEN <<>>
    ELSE LET c == Head(s)
             up == IF atStart /\ c \in LowerSet
                   THEN UpperLetters[CHOOSE i \in 1..26 : LowerLetters[i] = c] ELSE c
         IN <<up>> \o CapWords(Tail(s), c \in Whitespace)

\* tc.titlecase(meta.title).replace(';', ':')
HugoTitle(title) == str_replace(CapWords(title, TRUE), <<";">>, <<":">>)

\* the tags entry taken from the note's own tags
hugo_frontmatter_metatags(author, fm, p) ==
    LET meta == p.metadata
        base == (K_title :> StrVal(HugoTitle(meta.title)))
                  @@ (K_date :> StrVal(meta.publication_date))
                  @@ (K_doc :> StrVal(meta.creation_date))
        a == IF author # <<>> THEN (K_author :> StrVal(author)) @@ base ELSE base
    IN IF meta.tags # <<>> THEN (K_tags :> ListVal(meta.tags)) @@ a ELSE a

\* hugo_frontmatter(author)(fm, processed)
hugo_frontmatter(author, fm, p) ==
    LET meta == p.metadata
        base == (K_title :> StrVal(HugoTitle(meta.title)))
                  @@ (K_date :> StrVal(meta.publication_date))
                  @@ (K_doc :> StrVal(meta.creation_date))
        a == IF author # <<>> THEN (K_author :> StrVal(author)) @@ base ELSE base
    IN IF p.tags # <<>> THEN (K_tags :> ListVal(p.tags)) @@ a ELSE a

\* self.frontmatter_transform(fm, processed)
frontmatter_transform(t, fm, p) ==
    CASE t.kind = "identity" -> fm_identity(fm, p)
      [] t.kind = "prune_and_add" -> prune_and_add(t, fm, p)
      [] t.kind = "hugo" -> hugo_frontmatter(t.author, fm, p)

-----------------------------------------------------------------------------
(* yaml.dump(mapping, default_flow_style=False, allow_unicode=True,         *)
(* sort_keys=True) and ContentProcessor.build_output.                       *)

\* the printable ASCII characters in code point order, from " " (32); the grave
\* accent (96) is held by a place holder
Ascii == <<" ","!","\"","#","$","%","&","'","(",")","*","+",",","-",".","/",
           "0","1","2","3","4","5","6","7","8","9",":",";","<","=",">","?","@",
           "A","B","C","D","E","F","G","H","I","J","K","L","M",
           "N","O","P","Q","R","S","T","U","V","W","X","Y","Z",
           "[","\\","]","^","_","(grave accent)",
           "a","b","c","d","e","f","g","h","i","j","k","l","m",
           "n","o","p","q","r","s","t","u","v","w","x","y","z","{","|","}","~">>

\* ord(c)
ord(c) == 31 + (CHOOSE i \in 1..Len(Ascii) : Ascii[i] = c)

RECURSIVE str_lt(_, _)
\* a < b on str: by code point, a proper prefix first
str_lt(a, b) ==
    IF b = <<>> THEN FALSE
    ELSE IF a = <<>> THEN TRUE
    ELSE IF Head(a) # Head(b) THEN ord(Head(a)) < ord(Head(b))
    ELSE str_lt(Tail(a), Tail(b))

RECURSIVE sorted(_)
\* sorted(keys)
sorted(ks) ==
    IF ks = {} THEN <<>>
    ELSE LET m == CHOOSE x \in ks : \A y \in ks \ {x} : str_lt(x, y)
         IN <<m>> \o sorted(ks \ {m})

\* yaml's scalar for a str: plain when the text starts with a letter, is made of
\* letters, digits, "/", "-", "_" and inner blanks and so reads back as that str;
\* single-quoted otherwise (an all-digit text would read back as an int)
yaml_str(s) ==
    IF /\ s # <<>>
       /\ s[1] \in UpperSet \cup LowerSet
       /\ s[Len(s)] # " "
       /\ \A i \in 1..Len(s) : s[i] \in SlugChars \cup {"/", " "}
    THEN s
    ELSE <<"'">> \o str_replace(s, <<"'">>, <<"'", "'">>) \o <<"'">>

RECURSIVE yaml_items(_)
\* a block sequence, one "- item" line per element
yaml_items(l) ==
    IF l = <<>> THEN <<>>
    ELSE <<"-", " ">> \o yaml_str(Head(l)) \o <<"\n">> \o yaml_items(Tail(l))

\* one entry of the block mapping
yaml_entry(k, val) ==
    IF val.t = "str" THEN yaml_str(k) \o <<":", " ">> \o yaml_str(val.v) \o <<"\n">>
    ELSE IF val.v = <<>> THEN yaml_str(k) \o <<":", " ", "[", "]", "\n">>
    ELSE yaml_str(k) \o <<":", "\n">> \o yaml_items(val.v)

RECURSIVE yaml_entries(_, _)
yaml_entries(fm, ks) ==
    IF ks = <<>> THEN <<>>
    ELSE yaml_entry(Head(ks), fm[Head(ks)]) \o yaml_entries(fm, Tail(ks))

\* yaml.dump of a non-empty mapping
yaml_dump(fm) == yaml_entries(fm, sorted(DOMAIN fm))

\* the mapping and the content written out as they are, with one newline appended
build_output_untrimmed(p) ==
    IF DOMAIN p.frontmatter # {}
    THEN DELIM_NL \o yaml_dump(p.frontmatter) \o DELIM_NL \o p.content \o <<"\n">>
    ELSE p.content \o <<"\n">>

\* build_output(processed)
build_output(p) ==
    IF DOMAIN p.frontmatter # {}
    THEN DELIM_NL \o yaml_dump(p.frontmatter) \o DELIM_NL \o rstrip(p.content, {"\n"}) \o <<"\n">>
    ELSE rstrip(p.content, {"\n"}) \o <<"\n">>

-----------------------------------------------------------------------------
(* Inputs: notes, as their authors write them.                              *)

\* at most this many segments (text runs, wikilinks, embeds) in a note body
MaxSegs == 2

Seg(k, t, hs, s, d, b, e) ==
    [kind |-> k, target |-> t, hasSec |-> hs, sec |-> s, disp |-> d, base |-> b, ext |-> e]

\* a run of plain text
Text(t) == Seg("text", t, FALSE, <<>>, <<>>, <<>>, <<>>)
\* [[t]] and [[t|d]]
Link(t, d) == Seg("link", t, FALSE, <<>>, d, <<>>, <<>>)
\* [[t#s]] and [[t#s|d]]
SecLink(t, s, d) == Seg("link", t, TRUE, s, d, <<>>, <<>>)
\* ![[dir base ext]] and ![[dir base ext|alt]]: base is the file name without its extension
Embed(dir, b, e, alt) == Seg("embed", dir \o b \o e, FALSE, <<>>, alt, b, e)
\* the same file written as a wikilink: [[dir base ext]], [[dir base ext|alt]]
ImgLink(dir, b, e, alt) == Seg("link", dir \o b \o e, FALSE, <<>>, alt, b, e)
\* [[dir base ext#s]]
ImgSecLink(dir, b, e, s) == Seg("link", dir \o b \o e, TRUE, s, <<>>, b, e)

\* the source text of a segment
SegText(g) ==
    IF g.kind = "text" THEN g.target
    ELSE (IF g.kind = "embed" THEN <<"!">> ELSE <<>>) \o <<LB, LB>> \o g.target
           \o (IF g.hasSec THEN <<"#">> \o g.sec ELSE <<>>)
           \o (IF g.disp # <<>> THEN <<"|">> \o g.disp ELSE <<>>) \o <<RB, RB>>

RECURSIVE BodyFrom(_, _)
\* the body text of segments i.. of ss
BodyFrom(ss, i) == IF i > Len(ss) THEN <<>> ELSE SegText(ss[i]) \o BodyFrom(ss, i + 1)

BodyOf(ss) == BodyFrom(ss, 1)

S_Ab == <<"A","b">>
S_ab == <<"a","b">>
S_Ab_sp == <<" ","A","b"," ">>
S_Zz == <<"Z","z">>
S_p == <<"p">>
S_png == <<".","p","n","g">>
S_dir == <<"d","/">>
S_Qr == <<"Q",".","r"," ","1">>
S_JPG == <<".","J","P","G">>
S_sec == <<"S"," ","t">>
S_disp == <<"d"," ","E">>
S_dbr == <<"d",RB,"E">>
S_text == <<"a",RB,"\n">>
S_mdlink == <<LB,"r",RB,"(","m",")">>
S_nl == <<"\n">>

\* titles and slugs of the vault's notes, as given to LinkIndex.from_dict
IndexData == << <<S_Ab, <<"n","1">> >>, <<S_p \o S_png, <<"n","2">> >> >>

LinkSegs == { Link(S_Ab, <<>>), Link(S_ab, S_disp), SecLink(S_Ab_sp, S_sec, <<>>),
              SecLink(S_Ab, S_sec, S_disp),
              Link(S_Zz, <<>>), SecLink(S_Zz, S_sec, S_disp),
              SecLink(<<>>, S_sec, <<>>),
              Link(S_Ab, S_dbr), Link(S_Zz, S_dbr), SecLink(S_Ab, S_sec, S_dbr) }
ImageSegs == { Embed(<<>>, S_p, S_png, <<>>), Embed(<<>>, S_p, S_png, S_disp),
               Embed(S_dir, S_Qr, S_JPG, <<>>),
               ImgLink(<<>>, S_p, S_png, <<>>), ImgLink(S_dir, S_Qr, S_JPG, S_disp),
               ImgSecLink(<<>>, S_p, S_png, S_sec),
               Embed(<<>>, S_p, S_png, S_dbr) }
TextSegs == { Text(S_text), Text(S_mdlink) }

Bodies(pool) == UNION { [1..k -> pool] : k \in 0..MaxSegs }

Header == DELIM_NL \o <<"k",":"," ","v","\n">> \o DELIM_NL

K_k == <<"k">>
K_j == <<"j">>

NoTags == [kind |-> "none", steps |-> <<>>]
TagPipelines ==
    { NoTags,
      [kind |-> "compose", steps |-> << [kind |-> "identity"] >>],
      [kind |-> "compose",
       steps |-> << [kind |-> "filter_by_prefix", prefixes |-> { <<"x">> }],
                    [kind |-> "replace_separator", old |-> <<"/">>, new |-> <<"-">>] >>],
      [kind |-> "compose",
       steps |-> << [kind |-> "filter_by_prefix", prefixes |-> { <<"q">> }] >>] }

Keys(given, ks) == [given |-> given, keys |-> ks]
FmT(kind, keep, remove, add, author) ==
    [kind |-> kind, keep_keys |-> keep, remove_keys |-> remove, add_fields |-> add,
     author |-> author]
NoFm == FmT("none", Keys(FALSE, {}), Keys(FALSE, {}), EmptyDict, <<>>)
FmTransforms ==
    { NoFm,
      FmT("identity", Keys(FALSE, {}), Keys(FALSE, {}), EmptyDict, <<>>),
      FmT("prune_and_add", Keys(TRUE, {K_k}), Keys(FALSE, {}), EmptyDict, <<>>),
      FmT("prune_and_add", Keys(FALSE, {}), Keys(TRUE, {K_k}),
          (K_j :> StrVal(<<"w">>)), <<>>),
      FmT("prune_and_add", Keys(TRUE, {}), Keys(FALSE, {}), EmptyDict, <<>>),
      FmT("prune_and_add", Keys(TRUE, {K_k}), Keys(TRUE, {K_k}),
          (K_k :> StrVal(<<"w">>)), <<>>),
      FmT("prune_and_add", Keys(FALSE, {}), Keys(FALSE, {}), EmptyDict, <<>>),
      FmT("hugo", Keys(FALSE, {}), Keys(FALSE, {}), EmptyDict, <<"m","e">>),
      FmT("hugo", Keys(FALSE, {}), Keys(FALSE, {}), EmptyDict, <<>>) }

LinkTransforms == { [kind |-> "relative", prefix |-> <<>>],
                    [kind |-> "absolute", prefix |-> <<"/","b">>],
                    [kind |-> "hugo_ref", prefix |-> <<>>],
                    [kind |-> "attr", prefix |-> <<>>],
                    [kind |-> "auto", prefix |-> <<>>] }

\* (image_path_prefix, output_image_extension) as passed to the constructor
ImageConfigs == { << <<"/","i">>, <<>> >>, << <<"/","i","/">>, <<".","w","e","b","p">> >> }

\* ContentProcessor.__init__: image_path_prefix.rstrip('/') is what is stored;
\* prefix_arg keeps the argument as it was passed
Processor(lt, tt, ft, prefix, warn, ext) ==
    [link_transform |-> lt, tag_transform |-> tt, frontmatter_transform |-> ft,
     image_path_prefix |-> rstrip(prefix, {"/"}), warn_on_missing_link |-> warn,
     output_image_extension |-> ext, prefix_arg |-> prefix]

TagLists == { <<>>, << <<"x","/","y">> >>, << <<"z">>, <<"x","/","y">> >> }

\* the frontmatter mapping discovery parses for a note with these tags
FrontmatterOf(tags) ==
    IF tags = <<>> THEN (K_k :> StrVal(<<"v">>))
    ELSE (K_k :> StrVal(<<"v">>)) @@ (K_tags :> ListVal(tags))

\* NoteMetadata, with the text its context.read_raw() returns
NoteOf(ss, hdr, fm, tags) ==
    [raw |-> hdr \o BodyOf(ss), title |-> <<"m","y"," ","n">>, slug |-> <<"m","y","-","n">>,
     frontmatter |-> fm, tags |-> tags,
     creation_date |-> <<"2","0","2","4">>, publication_date |-> <<"2","0","2","5">>]

NoProcessed ==
    [metadata |-> NoteOf(<<>>, <<>>, EmptyDict, <<>>), content |-> <<>>, frontmatter |-> EmptyDict,
     tags |-> <<>>, referenced_images |-> <<>>, missing_links |-> <<>>]

NoCall == [called |-> FALSE, fm |-> EmptyDict, processed |-> NoProcessed]

NoOutput == [built |-> FALSE, text |-> <<>>]

\* no second call in progress
NoFrame ==
    [pc |-> "none", note |-> NoProcessed.metadata, content |-> <<>>, referenced_images |-> {},
     missing_links |-> <<>>, processed_tags |-> <<>>, processed |-> NoProcessed]

\* no VaultDiscovery constructed
NoDiscovery ==
    [files |-> <<>>, source_dirs |-> <<>>, required_tags |-> {}, excluded_tags |-> {},
     attributes |-> {}, op |-> "none", arg |-> <<>>, notes |-> <<>>,
     verdict |-> [ok |-> FALSE, reason |-> "", tags |-> {}], raised |-> ""]

-----------------------------------------------------------------------------
(* process(note), statement by statement.                                   *)

InitWith(pool, lts, warns, imgcfgs, tts, fts, taglists) ==
    /\ link_index = from_dict(IndexData)
    /\ \E lt \in lts, warn \in warns, ic \in imgcfgs, tt \in tts, ft \in fts :
           cfg = Processor(lt, tt, ft, ic[1], warn, ic[2])
    /\ \E ss \in Bodies(pool), tl \in taglists :
           /\ segs = ss
           /\ note = NoteOf(ss, Header, FrontmatterOf(tl), tl)
    /\ pc = "start"
    /\ content = <<>>
    /\ referenced_images = {}
    /\ missing_links = <<>>
    /\ processed_tags = <<>>
    /\ processed = NoProcessed
    /\ fm_call = NoCall
    /\ output = NoOutput
    /\ other = NoFrame
    /\ discovery = NoDiscovery

\* notes of every body shape, under every link renderer and image configuration,
\* missing-link warnings enabled
Init ==
    InitWith(LinkSegs \cup ImageSegs \cup TextSegs, LinkTransforms, {TRUE}, ImageConfigs,
             {NoTags}, {NoFm}, { << <<"x","/","y">> >> })

\* notes of every tag list, under every tag and frontmatter rewriter, warnings on and off
InitMeta ==
    InitWith({ Link(S_Zz, <<>>), Link(S_Ab, <<>>), Embed(<<>>, S_p, S_png, <<>>) },
             { [kind |-> "relative", prefix |-> <<>>] }, BOOLEAN, { << <<"/","i">>, <<>> >> },
             TagPipelines, FmTransforms, TagLists)

\* notes that end in no, one or several newlines, one of them with a tag that ends in
\* three dashes, under every frontmatter rewriter
InitOut ==
    InitWith({ Link(S_Zz, <<>>), Text(S_text), Text(S_nl) },
             { [kind |-> "relative", prefix |-> <<>>] }, {TRUE}, { << <<"/","i">>, <<>> >> },
             { NoTags, [kind |-> "compose", steps |-> << [kind |-> "identity"] >>] },
             FmTransforms, TagLists \cup { << <<"a","-","-","-">> >> })

\* titles and identifiers of the notes an index is built from: two titles that differ
\* in letter case only, and a third
IndexTitles == { S_Ab, S_ab, S_Zz }
IndexSlugs == { <<"n","1">>, <<"n","2">> }

MaxEntries == 3

\* the (title, slug) sequences an index is built from
IndexInputs == UNION { [1..k -> IndexTitles \X IndexSlugs] : k \in 0..MaxEntries }

\* a dict's items: no two with the same key
IsDict(d) == \A i, j \in 1..Len(d) : i # j => d[i][1] # d[j][1]

\* the notes with these titles and slugs
NotesOf(d) == [i \in 1..Len(d) |->
                  [NoteOf(<<>>, <<>>, EmptyDict, <<>>) EXCEPT !.title = d[i][1], !.slug = d[i][2]]]

\* wikilinks that look titles up in other letter cases, and one to no note
LookupSegs == { Link(S_Ab, <<>>), Link(<<"A","B">>, <<>>), Link(<<"z","z">>, <<>>),
                Link(<<"Q","q">>, <<>>) }

\* one wikilink processed against an index built by from_notes or from_dict from any
\* such sequence
InitIndex ==
    /\ \E d \in IndexInputs :
           \/ link_index = from_notes(NotesOf(d))
           \/ IsDict(d) /\ link_index = from_dict(d)
    /\ cfg = Processor([kind |-> "relative", prefix |-> <<>>], NoTags, NoFm, <<"/","i">>, TRUE, <<>>)
    /\ \E g \in LookupSegs :
           /\ segs = <<g>>
           /\ note = NoteOf(<<g>>, Header, FrontmatterOf(<<>>), <<>>)
    /\ pc = "start"
    /\ content = <<>>
    /\ referenced_images = {}
    /\ missing_links = <<>>
    /\ processed_tags = <<>>
    /\ processed = NoProcessed
    /\ fm_call = NoCall
    /\ output = NoOutput
    /\ other = NoFrame
    /\ discovery = NoDiscovery

S_FN == <<"F",RB,"N">>
S_ib == <<"i",RB,"b">>
S_pipes == <<"A","|","B","|","C">>
S_abr == <<"A"," ",LB,"w",RB," ","b">>

\* an index that holds a title with a closing bracket in it
EdgeIndexData == IndexData \o << <<S_FN, <<"n","3">> >> >>

\* wikilinks and embeds with brackets or pipes in target, file name, display or alt
EdgeSegs == { Link(S_Ab, S_dbr), Link(S_Ab, S_pipes), Link(S_Zz, S_dbr), Link(S_FN, <<>>),
              Embed(<<>>, S_ib, S_png, <<>>), Embed(<<>>, S_p, S_png, S_abr),
              Text(S_text) }

\* notes made of such links and embeds
InitEdge ==
    /\ link_index = from_dict(EdgeIndexData)
    /\ \E lt \in { [kind |-> "relative", prefix |-> <<>>], [kind |-> "hugo_ref", prefix |-> <<>>] } :
           cfg = Processor(lt, NoTags, NoFm, <<"/","i">>, TRUE, <<>>)
    /\ \E ss \in Bodies(EdgeSegs) :
           /\ segs = ss
           /\ note = NoteOf(ss, Header, FrontmatterOf(<<>>), <<>>)
    /\ pc = "start"
    /\ content = <<>>
    /\ referenced_images = {}
    /\ missing_links = <<>>
    /\ processed_tags = <<>>
    /\ processed = NoProcessed
    /\ fm_call = NoCall
    /\ output = NoOutput
    /\ other = NoFrame
    /\ discovery = NoDiscovery

\* keep_keys / remove_keys arguments: None, or a list of keys
KeyLists == { Keys(FALSE, {}) } \cup { Keys(TRUE, ks) : ks \in SUBSET {K_k, K_tags, K_j} }

\* every prune_and_add(keep_keys, remove_keys, add_fields) over these lists, with no
\* added field, a new one, or one that is already a key of the mapping
PruneConfigs ==
    { FmT("prune_and_add", keep, remove, add, <<>>) :
          keep \in KeyLists, remove \in KeyLists,
          add \in { EmptyDict, (K_j :> StrVal(<<"w">>)), (K_k :> StrVal(<<"w">>)) } }

\* notes of every tag list under every such rewriter
InitPrune ==
    InitWith({ Link(S_Zz, <<>>) }, { [kind |-> "relative", prefix |-> <<>>] }, {TRUE},
             { << <<"/","i">>, <<>> >> }, {NoTags}, PruneConfigs, TagLists)

\* malformed and degenerate syntax: unbalanced brackets, a section-only link, blank
\* targets, an embed of a file that is all extension, next to one ordinary link
DegenerateSegs == { Text(<<LB, LB>>), Text(<<RB, RB>>), Text(<<"!", LB, LB>>),
                    SecLink(<<>>, S_sec, <<>>), Link(<<" ">>, <<>>), SecLink(<<" ">>, <<>>, <<>>),
                    Link(S_Zz, <<>>), Embed(<<>>, <<>>, S_png, <<>>) }

\* the text before the body: a frontmatter block, one that is never closed, none
Headers == { Header, DELIM_NL \o <<"k",":"," ","v","\n">>, <<>> }

\* notes of such syntax, against an empty and a non-empty index
InitDegenerate ==
    /\ link_index \in { from_dict(<<>>), from_dict(IndexData) }
    /\ cfg = Processor([kind |-> "relative", prefix |-> <<>>], NoTags, NoFm, <<"/","i">>, TRUE, <<>>)
    /\ \E ss \in Bodies(DegenerateSegs), hdr \in Headers :
           /\ segs = ss
           /\ note = NoteOf(ss, hdr, FrontmatterOf(<<>>), <<>>)
    /\ pc = "start"
    /\ content = <<>>
    /\ referenced_images = {}
    /\ missing_links = <<>>
    /\ processed_tags = <<>>
    /\ processed = NoProcessed
    /\ fm_call = NoCall
    /\ output = NoOutput
    /\ other = NoFrame
    /\ discovery = NoDiscovery

\* pieces of raw file text: delimiter lines, a delimiter without its newline, a line
\* that merely ends in three dashes
RawPieces == { DELIM_NL, DELIM, <<"x","\n">>, <<"a","-","-","-","\n">> }

MaxPieces == 4

RawTexts == { Concat(ps) : ps \in UNION { [1..k -> RawPieces] : k \in 0..MaxPieces } }

\* notes whose file text is any run of such pieces, under one plain processor
InitRaw ==
    /\ link_index = from_dict(IndexData)
    /\ cfg = Processor([kind |-> "relative", prefix |-> <<>>], NoTags, NoFm, <<"/","i">>, TRUE, <<>>)
    /\ segs = <<>>
    /\ \E raw \in RawTexts :
           note = [NoteOf(<<>>, <<>>, EmptyDict, <<>>) EXCEPT !.raw = raw]
    /\ pc = "start"
    /\ content = <<>>
    /\ referenced_images = {}
    /\ missing_links = <<>>
    /\ processed_tags = <<>>
    /\ processed = NoProcessed
    /\ fm_call = NoCall
    /\ output = NoOutput
    /\ other = NoFrame
    /\ discovery = NoDiscovery

\* lines 107-111: read the text, strip the frontmatter block, fresh accumulators
Extract ==
    /\ pc = "start"
    /\ content' = _extract_content(note.raw)
    /\ referenced_images' = {}
    /\ missing_links' = <<>>
    /\ pc' = "extracted"
    /\ UNCHANGED <<output, other, discovery>>
    /\ UNCHANGED <<link_index, cfg, note, segs, processed_tags, processed, fm_call>>

\* lines 114-115
ProcessImages ==
    /\ pc = "extracted"
    /\ LET r == _process_images(cfg, content)
       IN /\ content' = r.result
          /\ referenced_images' = referenced_images \cup r.images
    /\ pc' = "images"
    /\ UNCHANGED <<output, other, discovery>>
    /\ UNCHANGED <<link_index, cfg, note, segs, missing_links, processed_tags, processed, fm_call>>

\* lines 117-118
ProcessWikilinks ==
    /\ pc = "images"
    /\ LET r == _process_wikilinks(cfg, link_index, content)
       IN /\ content' = r.result
          /\ missing_links' = missing_links \o r.missing_links
    /\ pc' = "links"
    /\ UNCHANGED <<output, other, discovery>>
    /\ UNCHANGED <<link_index, cfg, note, segs, referenced_images, processed_tags, processed, fm_call>>

\* lines 120-122: processed_tags for note n under configuration c
ProcessedTags(c, n) ==
    IF c.tag_transform.kind = "none" THEN n.tags ELSE compose(c.tag_transform.steps, n.tags)

TransformTags ==
    /\ pc = "links"
    /\ processed_tags' = ProcessedTags(cfg, note)
    /\ pc' = "tags"
    /\ UNCHANGED <<output, other, discovery>>
    /\ UNCHANGED <<link_index, cfg, note, segs, content, referenced_images, missing_links,
                   processed, fm_call>>

\* the lists list(s) can return for a set s: its elements in any order
Orders(s) == { q \in [1..Cardinality(s) -> s] : \A i, j \in DOMAIN q : i # j => q[i] # q[j] }

\* a ProcessedNote built with the note's own tags
BuildProcessed_rawtags ==
    /\ pc = "tags"
    /\ \E imgs \in Orders(referenced_images) :
           processed' = [metadata |-> note, content |-> content, frontmatter |-> note.frontmatter,
                         tags |-> note.tags, referenced_images |-> imgs,
                         missing_links |-> missing_links]
    /\ pc' = "built"
    /\ UNCHANGED <<output, other, discovery>>
    /\ UNCHANGED <<link_index, cfg, note, segs, content, referenced_images, missing_links,
                   processed_tags, fm_call>>

\* lines 124-131
BuildProcessed ==
    /\ pc = "tags"
    /\ \E imgs \in Orders(referenced_images) :
           processed' = [metadata |-> note, content |-> content, frontmatter |-> note.frontmatter,
                         tags |-> processed_tags, referenced_images |-> imgs,
                         missing_links |-> missing_links]
    /\ pc' = "built"
    /\ UNCHANGED <<output, other, discovery>>
    /\ UNCHANGED <<link_index, cfg, note, segs, content, referenced_images, missing_links,
                   processed_tags, fm_call>>

\* the rewriter's return value merged over the copied mapping instead of replacing it
TransformFrontmatter_merge ==
    /\ pc = "built"
    /\ IF cfg.frontmatter_transform.kind = "none"
       THEN UNCHANGED <<processed, fm_call>>
       ELSE /\ fm_call' = [called |-> TRUE, fm |-> note.frontmatter, processed |-> processed]
            /\ processed' = [processed EXCEPT !.frontmatter =
                                Update(processed.frontmatter,
                                       frontmatter_transform(cfg.frontmatter_transform,
                                                             note.frontmatter, processed))]
    /\ pc' = "done"
    /\ UNCHANGED <<output, other, discovery>>
    /\ UNCHANGED <<link_index, cfg, note, segs, content, referenced_images, missing_links,
                   processed_tags>>

\* lines 133-138
TransformFrontmatter ==
    /\ pc = "built"
    /\ IF cfg.frontmatter_transform.kind = "none"
       THEN UNCHANGED <<processed, fm_call>>
       ELSE /\ fm_call' = [called |-> TRUE, fm |-> note.frontmatter, processed |-> processed]
            /\ processed' = [processed EXCEPT !.frontmatter =
                                frontmatter_transform(cfg.frontmatter_transform,
                                                      note.frontmatter, processed)]
    /\ pc' = "done"
    /\ UNCHANGED <<output, other, discovery>>
    /\ UNCHANGED <<link_index, cfg, note, segs, content, referenced_images, missing_links,
                   processed_tags>>

\* build_output(processed), called with what process() returned
BuildOutput ==
    /\ pc = "done"
    /\ ~output.built
    /\ output' = [built |-> TRUE, text |-> build_output(processed)]
    /\ UNCHANGED <<other, discovery>>
    /\ UNCHANGED <<link_index, cfg, note, segs, pc, content, referenced_images, missing_links,
                   processed_tags, processed, fm_call>>

-----------------------------------------------------------------------------
(* A second process() call on the same processor and Link Index, on another *)
(* note, its statements interleaved with those of the first call.           *)

\* what the second call leaves alone: the first call's frame and everything shared
first == <<link_index, cfg, note, segs, pc, content, referenced_images, missing_links,
           processed_tags, processed, fm_call, output, discovery>>

\* lines 107-111
OtherExtract ==
    /\ other.pc = "start"
    /\ other' = [other EXCEPT !.content = _extract_content(other.note.raw),
                              !.referenced_images = {},
                              !.missing_links = <<>>,
                              !.pc = "extracted"]
    /\ UNCHANGED first

\* lines 114-115
OtherProcessImages ==
    /\ other.pc = "extracted"
    /\ LET r == _process_images(cfg, other.content)
       IN other' = [other EXCEPT !.content = r.result,
                                 !.referenced_images = @ \cup r.images,
                                 !.pc = "images"]
    /\ UNCHANGED first

\* a wikilink pass whose missing-link list is kept on the processor: the second call
\* appends to what the first call has collected
OtherProcessWikilinks_shared ==
    /\ other.pc = "images"
    /\ LET r == _process_wikilinks(cfg, link_index, other.content)
       IN other' = [other EXCEPT !.content = r.result,
                                 !.missing_links = missing_links \o r.missing_links,
                                 !.pc = "links"]
    /\ UNCHANGED first

\* lines 117-118
OtherProcessWikilinks ==
    /\ other.pc = "images"
    /\ LET r == _process_wikilinks(cfg, link_index, other.content)
       IN other' = [other EXCEPT !.content = r.result,
                                 !.missing_links = @ \o r.missing_links,
                                 !.pc = "links"]
    /\ UNCHANGED first

\* lines 120-122
OtherTransformTags ==
    /\ other.pc = "links"
    /\ other' = [other EXCEPT !.processed_tags = ProcessedTags(cfg, other.note), !.pc = "tags"]
    /\ UNCHANGED first

\* lines 124-131
OtherBuildProcessed ==
    /\ other.pc = "tags"
    /\ \E imgs \in Orders(other.referenced_images) :
           other' = [other EXCEPT
                        !.processed = [metadata |-> other.note, content |-> other.content,
                                       frontmatter |-> other.note.frontmatter,
                                       tags |-> other.processed_tags,
                                       referenced_images |-> imgs,
                                       missing_links |-> other.missing_links],
                        !.pc = "built"]
    /\ UNCHANGED first

\* lines 133-138
OtherTransformFrontmatter ==
    /\ other.pc = "built"
    /\ other' = [other EXCEPT
                    !.processed = IF cfg.frontmatter_transform.kind = "none" THEN @
                                  ELSE [@ EXCEPT !.frontmatter =
                                           frontmatter_transform(cfg.frontmatter_transform,
                                                                 other.note.frontmatter,
                                                                 other.processed)],
                    !.pc = "done"]
    /\ UNCHANGED first

\* the two calls, their statements in any order
NextPar ==
    \/ Extract
    \/ ProcessImages
    \/ ProcessWikilinks
    \/ TransformTags
    \/ BuildProcessed
    \/ TransformFrontmatter
    \/ BuildOutput
    \/ OtherExtract
    \/ OtherProcessImages
    \/ OtherProcessWikilinks
    \/ OtherTransformTags
    \/ OtherBuildProcessed
    \/ OtherTransformFrontmatter

\* what the two notes are made of: a link that resolves, one that does not, an image
ParSegs == { Link(S_Ab, <<>>), Link(S_Zz, <<>>), Embed(<<>>, S_p, S_png, <<>>) }

\* a processor without rewriters and one with a tag pipeline and the hugo rewriter
ParProcessors ==
    { Processor([kind |-> "relative", prefix |-> <<>>], tf[1], tf[2], <<"/","i">>, TRUE, <<>>) :
          tf \in { <<NoTags, NoFm>>,
                   <<CHOOSE tt \in TagPipelines : tt.kind # "none",
                     CHOOSE ft \in FmTransforms : ft.kind = "hugo">> } }

\* two calls about to start, on two notes, sharing the processor and the index
InitPar ==
    /\ link_index = from_dict(IndexData)
    /\ cfg \in ParProcessors
    /\ \E ss \in Bodies(ParSegs) :
           /\ segs = ss
           /\ note = NoteOf(ss, Header, FrontmatterOf(<<>>), <<>>)
    /\ \E ss \in Bodies(ParSegs) :
           other = [NoFrame EXCEPT
                       !.pc = "start",
                       !.note = [NoteOf(ss, Header, FrontmatterOf(<< <<"z">> >>), << <<"z">> >>)
                                    EXCEPT !.title = <<"o"," ","n">>, !.slug = <<"o","-","n">>]]
    /\ pc = "start"
    /\ content = <<>>
    /\ referenced_images = {}
    /\ missing_links = <<>>
    /\ processed_tags = <<>>
    /\ processed = NoProcessed
    /\ fm_call = NoCall
    /\ output = NoOutput
    /\ discovery = NoDiscovery

SpecPar == InitPar /\ [][NextPar]_vars

-----------------------------------------------------------------------------
(* The image pass and the wikilink pass applied once more, to the content   *)
(* a finished call returned.                                                *)

\* the returned content becomes the content of a second round of the two passes
Reapply ==
    /\ pc = "done"
    /\ other.pc = "none"
    /\ other' = [NoFrame EXCEPT !.pc = "extracted", !.note = note, !.content = processed.content]
    /\ UNCHANGED first

NextIdem ==
    \/ Extract
    \/ ProcessImages
    \/ ProcessWikilinks
    \/ TransformTags
    \/ BuildProcessed
    \/ TransformFrontmatter
    \/ Reapply
    \/ OtherProcessImages
    \/ OtherProcessWikilinks

\* links, embeds and section-only links next to stray brackets, bangs and pipes, and a
\* display text that opens a bracket
IdemSegs == { Text(<<LB>>), Text(<<LB, LB>>), Text(<<RB, RB>>), Text(<<"!">>), Text(<<"|">>),
              Link(S_Ab, <<>>), Link(S_Zz, S_disp), Link(S_Zz, <<LB, "x">>),
              SecLink(<<>>, S_sec, <<>>), Embed(<<>>, S_p, S_png, <<>>),
              ImgLink(<<>>, S_p, S_png, S_disp) }

\* notes of such bodies under the built-in renderers
InitIdem ==
    /\ link_index = from_dict(IndexData)
    /\ \E lt \in { x \in LinkTransforms : x.kind \in {"relative", "absolute", "hugo_ref"} } :
           cfg = Processor(lt, NoTags, NoFm, <<"/","i">>, TRUE, <<>>)
    /\ \E ss \in Bodies(IdemSegs) :
           /\ segs = ss
           /\ note = NoteOf(ss, Header, FrontmatterOf(<<>>), <<>>)
    /\ pc = "start"
    /\ content = <<>>
    /\ referenced_images = {}
    /\ missing_links = <<>>
    /\ processed_tags = <<>>
    /\ processed = NoProcessed
    /\ fm_call = NoCall
    /\ output = NoOutput
    /\ other = NoFrame
    /\ discovery = NoDiscovery

SpecIdem == InitIdem /\ [][NextIdem]_vars

Next ==
    \/ Extract
    \/ ProcessImages
    \/ ProcessWikilinks
    \/ TransformTags
    \/ BuildProcessed
    \/ TransformFrontmatter
    \/ BuildOutput

Spec == Init /\ [][Next]_vars

SpecMeta == InitMeta /\ [][Next]_vars

SpecRaw == InitRaw /\ [][Next]_vars

SpecOut == InitOut /\ [][Next]_vars

SpecIndex == InitIndex /\ [][Next]_vars

SpecEdge == InitEdge /\ [][Next]_vars

SpecPrune == InitPrune /\ [][Next]_vars

SpecDegenerate == InitDegenerate /\ [][Next]_vars

\* process(note) as a whole, for processor c with link index idx; referenced_images is
\* kept as the set the list is made from
process(c, idx, n) ==
    LET body == _extract_content(n.raw)
        im == _process_images(c, body)
        wl == _process_wikilinks(c, idx, im.result)
        doc == [metadata |-> n, content |-> wl.result, frontmatter |-> n.frontmatter,
                tags |-> ProcessedTags(c, n), referenced_images |-> im.images,
                missing_links |-> wl.missing_links]
    IN IF c.frontmatter_transform.kind = "none" THEN doc
       ELSE [doc EXCEPT !.frontmatter =
                frontmatter_transform(c.frontmatter_transform, n.frontmatter, doc)]

-----------------------------------------------------------------------------
(* VaultDiscovery: the vault's files, yaml.safe_load on the frontmatter     *)
(* forms the notes use, and the three public methods.                       *)

IntVal(s) == [t |-> "int", v |-> s]
NoneVal == [t |-> "none", v |-> <<>>]

RECURSIVE split(_, _)
\* s.split(sep)
split(s, sep) ==
    LET i == Find(s, sep)
    IN IF i = 0 THEN <<s>>
       ELSE <<Slice(s, 1, i - 1)>> \o split(Slice(s, i + Len(sep), Len(s)), sep)

\* a plain scalar: digits are an int, anything else a str
yaml_scalar(v) ==
    IF v # <<>> /\ \A i \in 1..Len(v) : v[i] \in Digits THEN IntVal(v) ELSE StrVal(v)

\* the value written after "key:" on its line: nothing (None, or a block list to come),
\* a flow list "[a, b]", a scalar; a flow list that is never closed is a YAMLError
yaml_value(v) ==
    IF v = <<>> THEN [ok |-> TRUE, value |-> NoneVal]
    ELSE IF Head(v) = LB
    THEN IF v[Len(v)] = RB
         THEN [ok |-> TRUE,
               value |-> ListVal(IF Len(v) = 2 THEN <<>>
                                 ELSE split(Slice(v, 2, Len(v) - 1), <<",", " ">>))]
         ELSE [ok |-> FALSE, value |-> NoneVal]
    ELSE [ok |-> TRUE, value |-> yaml_scalar(v)]

YAMLError == [ok |-> FALSE, value |-> EmptyDict]

RECURSIVE yaml_lines(_, _, _)
\* the mapping read from lines ls, after mapping d was read; open is the key whose
\* block list the "- item" lines belong to (empty when there is none)
yaml_lines(ls, d, open) ==
    IF ls = <<>> THEN [ok |-> TRUE, value |-> d]
    ELSE LET l == Head(ls)
             c == Find(l, <<":">>)
         IN IF startswith(strip(l), <<"-", " ">>)
            THEN IF open = <<>> THEN YAMLError
                 ELSE LET x == strip(Slice(strip(l), 3, Len(strip(l))))
                          sofar == IF d[open].t = "list" THEN d[open].v ELSE <<>>
                      IN yaml_lines(Tail(ls), Update(d, open :> ListVal(sofar \o <<x>>)), open)
            ELSE IF c = 0 THEN YAMLError
            ELSE LET v == yaml_value(strip(Slice(l, c + 1, Len(l))))
                     key == Slice(l, 1, c - 1)
                 IN IF ~v.ok THEN YAMLError
                    ELSE yaml_lines(Tail(ls), Update(d, key :> v.value),
                                    IF v.value = NoneVal THEN key ELSE <<>>)

RECURSIVE nonblank(_)
\* the lines that hold something
nonblank(ls) ==
    IF ls = <<>> THEN <<>>
    ELSE (IF strip(Head(ls)) # <<>> THEN <<Head(ls)>> ELSE <<>>) \o nonblank(Tail(ls))

\* what the parser has read, as a document
AsDocument(r) == [ok |-> r.ok, isdict |-> r.ok, value |-> r.value]

\* the document written on lines ls: nothing, one plain scalar, or a mapping
yaml_document(ls) ==
    IF ls = <<>> \/ (Len(ls) = 1 /\ Find(ls[1], <<":">>) = 0
                        /\ Head(strip(ls[1])) \notin {LB, "-"})
    THEN [ok |-> TRUE, isdict |-> FALSE, value |-> EmptyDict]
    ELSE AsDocument(yaml_lines(ls, EmptyDict, <<>>))

\* yaml.safe_load(text), line 177: ok is FALSE where it raises yaml.YAMLError, isdict
\* tells a mapping from a scalar or an empty document
yaml_safe_load(text) == yaml_document(nonblank(split(text, <<"\n">>)))

\* parts[1] of content.split('---\n', 2) when there are three parts
FrontmatterBlock(text) ==
    LET a == Find(text, DELIM_NL)
        rest == IF a = 0 THEN <<>> ELSE Slice(text, a + 4, Len(text))
        b == Find(rest, DELIM_NL)
    IN [found |-> a # 0 /\ b # 0, text |-> IF a # 0 /\ b # 0 THEN Slice(rest, 1, b - 1) ELSE <<>>]

\* lines 177-186: what _parse_frontmatter returns once yaml.safe_load is through
loaded(y) ==
    IF ~y.ok THEN EmptyDict
    ELSE IF ~y.isdict THEN EmptyDict
    ELSE y.value

\* VaultDiscovery._parse_frontmatter, on the text of the file: no frontmatter block, a
\* document that is no mapping and a YAMLError (caught at 184-186) all give {}
_parse_frontmatter(text) ==
    IF ~startswith(text, DELIM) THEN EmptyDict
    ELSE IF ~FrontmatterBlock(text).found THEN EmptyDict
    ELSE loaded(yaml_safe_load(FrontmatterBlock(text).text))

\* VaultDiscovery._extract_tags(frontmatter)
_extract_tags(frontmatter) ==
    IF K_tags \notin DOMAIN frontmatter THEN <<>>
    ELSE LET tag_data == frontmatter[K_tags]
         IN IF tag_data.t = "list" THEN tag_data.v
            ELSE IF tag_data.t = "str" THEN <<tag_data.v>>
            ELSE <<>>

K_created == <<"c", "r", "e", "a", "t", "e", "d">>

\* VaultDiscovery._get_date_string(frontmatter.get(key))
_get_date_string(frontmatter, key) ==
    IF key \notin DOMAIN frontmatter \/ frontmatter[key].t \in {"none", "list"} THEN <<>>
    ELSE frontmatter[key].v

\* the path of a file of the vault
VaultPath == <<"/", "v", "/">>
PathOf(f) == VaultPath \o (IF f.dir = "." THEN <<>> ELSE <<"d", "e", "e", "p", "/">>) \o f.name

\* lines 137-153: the NoteMetadata of file f with this frontmatter, in a list; the list
\* is empty where inflection.parameterize raises, on a title that is no str
metadata_of(f, frontmatter) ==
    LET title == IF K_title \in DOMAIN frontmatter THEN frontmatter[K_title]
                 ELSE StrVal(PathStem(f.name))
    IN IF title.t # "str" THEN <<>>
       ELSE << [path |-> PathOf(f), title |-> title.v, slug |-> parameterize(title.v),
                frontmatter |-> frontmatter, tags |-> _extract_tags(frontmatter),
                creation_date |-> _get_date_string(frontmatter, K_created),
                publication_date |-> _get_date_string(frontmatter, K_date)] >>

\* VaultDiscovery._get_note_metadata(file_path): a list with the NoteMetadata, empty
\* for None (any exception is caught at 154-156)
_get_note_metadata(f) == metadata_of(f, _parse_frontmatter(f.text))

\* VaultDiscovery.is_publishable(note) -> (is_publishable, reason): the reason's wording
\* and the tags it lists
is_publishable(d, n) ==
    LET note_tags == { n.tags[i] : i \in 1..Len(n.tags) }
    IN IF d.required_tags # {} /\ d.required_tags \cap note_tags = {}
       THEN [ok |-> FALSE, reason |-> "Missing required tags", tags |-> d.required_tags]
       ELSE IF d.excluded_tags \cap note_tags # {}
       THEN [ok |-> FALSE, reason |-> "Contains excluded tags",
             tags |-> d.excluded_tags \cap note_tags]
       ELSE [ok |-> TRUE, reason |-> "OK", tags |-> {}]

\* the directories that exist in the vault
ExistingDirs == {".", "deep"}

RECURSIVE existing(_)
\* [d for d in ds if d.exists()]
existing(ds) ==
    IF ds = <<>> THEN <<>>
    ELSE (IF Head(ds) \in ExistingDirs THEN <<Head(ds)>> ELSE <<>>) \o existing(Tail(ds))

\* line 43
existing_dirs(d) == existing(d.source_dirs)

RECURSIVE md_files(_, _)
\* the files of fs that are directly in dir and are named *.md
md_files(fs, dir) ==
    IF fs = <<>> THEN <<>>
    ELSE (IF Head(fs).dir = dir /\ endswith(Head(fs).name, <<".", "m", "d">>)
          THEN <<Head(fs)>> ELSE <<>>) \o md_files(Tail(fs), dir)

\* source_dir.glob("*.md"), in the order the file system lists the files
glob_md(d, dir) == md_files(d.files, dir)

\* lines 57-62: metadata is kept unless it is None or fails the filters
if_publishable(d, metadata) ==
    IF metadata # <<>> /\ is_publishable(d, metadata[1]).ok THEN metadata ELSE <<>>

RECURSIVE publishable_of(_, _)
\* lines 55-62: the notes of files fs that parse and pass the filters
publishable_of(d, fs) ==
    IF fs = <<>> THEN <<>>
    ELSE if_publishable(d, _get_note_metadata(Head(fs))) \o publishable_of(d, Tail(fs))

RECURSIVE discover_dirs(_, _)
\* lines 53-62, for the existing directories ds
discover_dirs(d, ds) ==
    IF ds = <<>> THEN <<>>
    ELSE publishable_of(d, glob_md(d, Head(ds))) \o discover_dirs(d, Tail(ds))

\* VaultDiscovery.discover_all()
discover_all(d) ==
    IF existing_dirs(d) = <<>> THEN [raised |-> "FileNotFoundError", notes |-> <<>>]
    ELSE [raised |-> "", notes |-> discover_dirs(d, existing_dirs(d))]

\* path.exists() for the argument of get_note, a path or a name
path_exists(d, p) == \E i \in 1..Len(d.files) : PathOf(d.files[i]) = p

\* the file at path p
FileAt(d, p) == d.files[CHOOSE i \in 1..Len(d.files) : PathOf(d.files[i]) = p]

\* line 97
has_title(metadata, search_name) ==
    metadata # <<>> /\ str_lower(metadata[1].title) = search_name

RECURSIVE title_match(_, _)
\* lines 95-98: the first file of fs whose note has the title searched for
title_match(fs, search_name) ==
    IF fs = <<>> THEN <<>>
    ELSE IF has_title(_get_note_metadata(Head(fs)), search_name)
    THEN _get_note_metadata(Head(fs))
    ELSE title_match(Tail(fs), search_name)

RECURSIVE search_dirs(_, _, _, _)
\* lines 85-98: the first source directory that has the file or a note of that title
search_dirs(d, ds, filename, search_name) ==
    IF ds = <<>> THEN [found |-> FALSE, notes |-> <<>>]
    ELSE IF Head(ds) \notin ExistingDirs THEN search_dirs(d, Tail(ds), filename, search_name)
    ELSE LET note_path == VaultPath \o (IF Head(ds) = "." THEN <<>> ELSE <<"d", "e", "e", "p", "/">>) \o filename
             byTitle == title_match(glob_md(d, Head(ds)), search_name)
         IN IF path_exists(d, note_path)
            THEN [found |-> TRUE, notes |-> _get_note_metadata(FileAt(d, note_path))]
            ELSE IF byTitle # <<>> THEN [found |-> TRUE, notes |-> byTitle]
            ELSE search_dirs(d, Tail(ds), filename, search_name)

\* VaultDiscovery.get_note(name_or_path): a list with the note, empty for None
get_note(d, name_or_path) ==
    IF path_exists(d, name_or_path) /\ PathSuffix(name_or_path) = <<".", "m", "d">>
    THEN _get_note_metadata(FileAt(d, name_or_path))
    ELSE LET stem == PathStem(name_or_path)
         IN search_dirs(d, d.source_dirs, stem \o <<".", "m", "d">>, str_lower(stem)).notes

-----------------------------------------------------------------------------
(* A vault, a VaultDiscovery over it, and one call of a public method.      *)

File(dir, name, text) == [dir |-> dir, name |-> name, text |-> text]

\* files a vault may hold: a tagged note, a note whose frontmatter is no valid YAML,
\* notes with a flow list and with a single tag, a text file named like a note, a note
\* in a folder that is no source directory, a note whose title is a number, a note
\* without frontmatter
VaultFiles ==
    { File(".", <<"n", "o", "t", "e", "1", ".", "m", "d">>, <<"-", "-", "-", "\n", "t", "i", "t", "l", "e", ":", " ", "G", "\n", "t", "a", "g", "s", ":", "\n", "-", " ", "e", "\n", "-", "-", "-", "\n", "C", "\n">>),
      File(".", <<"b", "a", "d", ".", "m", "d">>, <<"-", "-", "-", "\n", "t", "i", "t", "l", "e", ":", " ", "B", "\n", "t", "a", "g", "s", ":", " ", LB, "u", "\n", "-", "-", "-", "\n", "C", "\n">>),
      File(".", <<"d", ".", "m", "d">>, <<"-", "-", "-", "\n", "t", "a", "g", "s", ":", " ", LB, "e", ",", " ", "d", RB, "\n", "-", "-", "-", "\n">>),
      File(".", <<"s", ".", "m", "d">>, <<"-", "-", "-", "\n", "t", "a", "g", "s", ":", " ", "d", "\n", "-", "-", "-", "\n">>),
      File(".", <<"n", "o", "t", "e", "1", ".", "t", "x", "t">>, <<"x">>),
      File("deep", <<"n", ".", "m", "d">>, <<"-", "-", "-", "\n", "t", "i", "t", "l", "e", ":", " ", "N", "\n", "-", "-", "-", "\n">>),
      File(".", <<"i", ".", "m", "d">>, <<"-", "-", "-", "\n", "t", "i", "t", "l", "e", ":", " ", "5", "\n", "-", "-", "-", "\n">>),
      File(".", <<"p", ".", "m", "d">>, <<"C", "\n">>) }

MaxFiles == 2

\* the files of a vault, in the order the file system lists them
Vaults ==
    UNION { { v \in [1..k -> VaultFiles] : \A i, j \in 1..k : i # j => v[i] # v[j] } :
              k \in 0..MaxFiles }

\* the names and paths get_note is asked for
NoteArgs == { <<"n", "o", "t", "e", "1">>, <<"n", "o", "t", "e", "1", ".", "m", "d">>, <<"n", "o", "t", "e", "1", ".", "t", "x", "t">>, <<"b", "a", "d">>, <<"G">>, <<"G", ".", "t", "x", "t">>,
              VaultPath \o <<"n", "o", "t", "e", "1", ".", "m", "d">>, VaultPath \o <<"n", "o", "t", "e", "1", ".", "t", "x", "t">> }

\* the parameters of VaultDiscovery.__init__
Parameters == {"vault_path", "source_dirs", "required_tags", "excluded_tags"}

NoVerdict == [ok |-> FALSE, reason |-> "", tags |-> {}]

\* VaultDiscovery.__init__: every parameter becomes an attribute, and there is no other
InitDisc ==
    /\ \E v \in Vaults, sd \in { <<".">>, <<"gone">>, <<"gone", ".">> },
          req \in { {}, {<<"e">>} }, exc \in { {}, {<<"d">>} } :
           discovery = [files |-> v, source_dirs |-> sd, required_tags |-> req,
                        excluded_tags |-> exc, attributes |-> Parameters,
                        op |-> "constructed", arg |-> <<>>, notes |-> <<>>,
                        verdict |-> NoVerdict, raised |-> ""]
    /\ link_index = from_dict(<<>>)
    /\ cfg = Processor([kind |-> "relative", prefix |-> <<>>], NoTags, NoFm, <<"/","i">>, TRUE, <<>>)
    /\ segs = <<>>
    /\ note = NoProcessed.metadata
    /\ pc = "none"
    /\ content = <<>>
    /\ referenced_images = {}
    /\ missing_links = <<>>
    /\ processed_tags = <<>>
    /\ processed = NoProcessed
    /\ fm_call = NoCall
    /\ output = NoOutput
    /\ other = NoFrame

\* what a call on the VaultDiscovery leaves alone
processing == <<link_index, cfg, note, segs, pc, content, referenced_images, missing_links,
                processed_tags, processed, fm_call, output, other>>

DiscoverAll ==
    /\ discovery.op = "constructed"
    /\ \E r \in { discover_all(discovery) } :
           discovery' = [discovery EXCEPT !.op = "discover_all", !.notes = r.notes,
                                          !.raised = r.raised]
    /\ UNCHANGED processing

GetNote ==
    /\ discovery.op = "constructed"
    /\ \E a \in NoteArgs :
           discovery' = [discovery EXCEPT !.op = "get_note", !.arg = a,
                                          !.notes = get_note(discovery, a)]
    /\ UNCHANGED processing

\* is_publishable called with the metadata of a file of the vault
IsPublishable ==
    /\ discovery.op = "constructed"
    /\ \E i \in 1..Len(discovery.files) :
           \E metadata \in { _get_note_metadata(discovery.files[i]) } :
              /\ metadata # <<>>
              /\ discovery' = [discovery EXCEPT !.op = "is_publishable",
                                                !.arg = metadata[1].path,
                                                !.notes = metadata,
                                                !.verdict = is_publishable(discovery, metadata[1])]
    /\ UNCHANGED processing

NextDisc ==
    \/ DiscoverAll
    \/ GetNote
    \/ IsPublishable

SpecDisc == InitDisc /\ [][NextDisc]_vars

-----------------------------------------------------------------------------
(* What the properties speak of, read off the note as its author wrote it.  *)

AfterLinks == {"links", "tags", "built", "done"}
BuiltInRenderers == {"relative", "absolute", "hugo_ref"}

Range(q) == { q[i] : i \in DOMAIN q }
Count(q, x) == Cardinality({ i \in DOMAIN q : q[i] = x })

\* the note-target T of a wikilink: its target, surrounding whitespace ignored
NoteTarget(g) == strip(g.target)

\* the whole target text, between [[ and | or ]]
TargetText(g) == strip(g.target \o (IF g.hasSec THEN <<"#">> \o g.sec ELSE <<>>))

\* t matches a Link Index title, letter case ignored
HasTitle(t) == \E i \in 1..Len(IndexData) : str_lower(IndexData[i][1]) = str_lower(t)

\* the identifier of the last note whose title is t, letter case ignored
IndexAnswer(t) ==
    LET hits == { i \in 1..Len(IndexData) : str_lower(IndexData[i][1]) = str_lower(t) }
    IN IndexData[CHOOSE i \in hits : \A j \in hits : j <= i][2]

IsText(g) == g.kind = "text"
IsEmbed(g) == g.kind = "embed"
Resolved(g) == g.kind = "link" /\ HasTitle(NoteTarget(g))
Unresolved(g) == g.kind = "link" /\ ~HasTitle(NoteTarget(g))
ImageTarget(g) == HasImageExt(TargetText(g))
HasFragment(g) == g.hasSec /\ g.sec # <<>>

LinkText(g) == IF g.disp # <<>> THEN g.disp ELSE NoteTarget(g)
Fragment(g) == <<"#">> \o parameterize(g.sec)
Rendered(g, id) == link_transform(cfg.link_transform, LinkText(g), id)

\* r with the fragment of g put in place of, and followed by, its closing parenthesis
Anchored(r, g) ==
    IF HasFragment(g) /\ \E i \in 1..Len(r) : r[i] = ")"
    THEN SubSeq(r, 1, Len(r) - 1) \o Fragment(g) \o <<")">>
    ELSE r

\* the link the renderer makes for g from the index's answer / from the fallback identifier
WantLink(g) == Anchored(Rendered(g, IndexAnswer(NoteTarget(g))), g)
WantFallback(g) == Anchored(Rendered(g, parameterize(NoteTarget(g))), g)

PrefixNoSlash ==
    LET a == cfg.prefix_arg
    IN IF a # <<>> /\ a[Len(a)] = "/" THEN SubSeq(a, 1, Len(a) - 1) ELSE a

\* ![normalize(alt or base name)](prefix/normalize(base name)ext)
WantImage(g) ==
    <<"!", LB>> \o parameterize(IF g.disp # <<>> THEN g.disp ELSE g.base) \o <<RB, "(">>
        \o PrefixNoSlash \o <<"/">> \o parameterize(g.base)
        \o (IF cfg.output_image_extension # <<>> THEN cfg.output_image_extension
            ELSE str_lower(g.ext))
        \o <<")">>

\* process() applied to a note whose body is the segment g alone
Solo(g) == process(cfg, link_index, NoteOf(<<g>>, <<>>, EmptyDict, <<>>)).content

-----------------------------------------------------------------------------
(* C1: every wikilink [[T]], [[T|D]], [[T#S]], [[T#S|D]] whose note-target *)
(* T matches an index title (letter case and surrounding whitespace         *)
(* ignored) is replaced by the Link Renderer's output for (D if given else  *)
(* T, the index's identifier for T), the fragment of a section link put     *)
(* before its closing parenthesis.  Stated for targets that do not carry an *)
(* image extension.                                                         *)
C1_Claim ==
    (pc \in AfterLinks
       /\ \A i \in 1..Len(segs) :
              IsText(segs[i]) \/ (Resolved(segs[i]) /\ ~ImageTarget(segs[i])))
    => content = Concat([i \in 1..Len(segs) |->
                           IF IsText(segs[i]) THEN segs[i].target ELSE WantLink(segs[i])])

(* C2: with warnings enabled, for every wikilink whose note-target does not *)
(* resolve, (i) the note-target, in its original casing, is in              *)
(* missing_links once for each such wikilink and (ii) content contains the  *)
(* renderer's output for (display, normalize(target)).  Stated for targets  *)
(* that do not carry an image extension.                                    *)
C2_Claim ==
    (pc \in AfterLinks /\ cfg.warn_on_missing_link)
    => \A i \in 1..Len(segs) :
           (Unresolved(segs[i]) /\ ~ImageTarget(segs[i]))
           => /\ Count(missing_links, NoteTarget(segs[i]))
                   = Cardinality({ j \in 1..Len(segs) :
                                     /\ Unresolved(segs[j]) /\ ~ImageTarget(segs[j])
                                     /\ NoteTarget(segs[j]) = NoteTarget(segs[i]) })
              /\ Contains(content, WantFallback(segs[i]))

(* C3: warn_on_missing_link changes only missing_links: with it disabled    *)
(* the list is empty, and content, tags, frontmatter and referenced images  *)
(* are those of the same note processed with it enabled.                    *)
C3_WarnOnlyDiagnostics ==
    pc = "done"
    => LET on == process([cfg EXCEPT !.warn_on_missing_link = TRUE], link_index, note)
       IN /\ processed.content = on.content
          /\ processed.tags = on.tags
          /\ processed.frontmatter = on.frontmatter
          /\ Range(processed.referenced_images) = on.referenced_images
          /\ (~cfg.warn_on_missing_link => processed.missing_links = <<>>)

C3_Witness ==
    /\ pc = "done"
    /\ ~cfg.warn_on_missing_link
    /\ cfg.frontmatter_transform.kind = "hugo"
    /\ segs = <<Link(S_Zz, <<>>), Embed(<<>>, S_p, S_png, <<>>)>>
    /\ processed.missing_links = <<>>
    /\ process([cfg EXCEPT !.warn_on_missing_link = TRUE], link_index, note).missing_links
         = <<S_Zz>>

(* C4: the image pass rewrites every image embed ![[target]] or            *)
(* ![[target|alt]] to ![normalize(alt or base)](prefix/normalize(base)ext), *)
(* before the wikilink pass and not through the Link Renderer: after the    *)
(* image pass the wikilinks are still as written, and the wikilink pass     *)
(* leaves the image markup in place.                                        *)
C4_Claim ==
    /\ pc = "images"
       => content = Concat([i \in 1..Len(segs) |->
                              IF IsEmbed(segs[i]) THEN WantImage(segs[i])
                              ELSE SegText(segs[i])])
    /\ pc \in AfterLinks
       => \A i \in 1..Len(segs) : IsEmbed(segs[i]) => Contains(content, WantImage(segs[i]))

Matched(g) == IsEmbed(g) /\ \A k \in 1..Len(g.disp) : g.disp[k] # RB

EmbedTargets == { segs[i].target : i \in { j \in 1..Len(segs) : Matched(segs[j]) } }

AsEmbed(g) ==
    IF g.kind = "link" /\ g.ext # <<>>
    THEN Seg("embed", g.target, FALSE, <<>>, g.disp, g.base, g.ext)
    ELSE g

(* C6 as stated: a wikilink to an image file gives the markup and the       *)
(* referenced_images entry that the image embed of the same target gives.   *)
C6_Claim ==
    pc = "done"
    => LET twin == process(cfg, link_index,
                           NoteOf([i \in 1..Len(segs) |-> AsEmbed(segs[i])], Header,
                                  note.frontmatter, note.tags))
       IN /\ processed.content = twin.content
          /\ Range(processed.referenced_images) = twin.referenced_images

(* C7: text outside the links and embeds is kept, in order: the content is  *)
(* the text runs as written, with each link or embed replaced by what it is *)
(* replaced by on its own; a body of text runs only comes back unchanged,   *)
(* with no referenced image and no missing link.                            *)
C7_Frame ==
    pc \in AfterLinks
    => /\ content = Concat([i \in 1..Len(segs) |->
                              IF IsText(segs[i]) THEN segs[i].target ELSE Solo(segs[i])])
       /\ (\A i \in 1..Len(segs) : IsText(segs[i]))
          => /\ content = BodyOf(segs)
             /\ referenced_images = {}
             /\ missing_links = <<>>

C7_Witness ==
    /\ pc = "done"
    /\ segs = <<Text(S_mdlink), Text(S_text)>>
    /\ processed.content = <<LB,"r",RB,"(","m",")","a",RB,"\n">>
    /\ processed.referenced_images = <<>>
    /\ processed.missing_links = <<>>

WantSection(g) ==
    LET id == IndexAnswer(NoteTarget(g))
        k == cfg.link_transform.kind
        dest == CASE k = "relative" -> id \o <<".","m","d">>
                  [] k = "absolute" -> cfg.link_transform.prefix \o <<"/">> \o id
                  [] k = "hugo_ref" -> <<"{","{","<"," ","r","e","f"," ",Q>> \o id
                                          \o <<Q," ",">","}","}">>
    IN <<LB>> \o LinkText(g) \o <<RB, "(">> \o dest \o Fragment(g) \o <<")">>

(* C8: with a built-in renderer, a section wikilink [[T#S]] or [[T#S|D]]    *)
(* whose note-target resolves is rendered with the index identifier and     *)
(* #normalize(S) inside the link destination: [text](id.md#s),              *)
(* [text](prefix/id#s), [text]({{< ref "id" >}}#s); the text defaults to T. *)
C8_Claim ==
    (pc \in AfterLinks /\ cfg.link_transform.kind \in BuiltInRenderers)
    => \A i \in 1..Len(segs) :
           (Resolved(segs[i]) /\ HasFragment(segs[i]))
           => Contains(content, WantSection(segs[i]))

IsInsertion(out, r, f) ==
    \E k \in 0..Len(r) : out = Slice(r, 1, k) \o f \o Slice(r, k + 1, Len(r))

(* C9: for any renderer, the markup of a section wikilink is the renderer's *)
(* output with #normalize(section) inserted and no character of it removed  *)
(* or altered.  Stated for a body that is one such wikilink, with a display *)
(* text free of brackets.                                                   *)
C9_Claim ==
    (pc \in AfterLinks /\ Len(segs) = 1)
    => ((/\ Resolved(segs[1]) /\ HasFragment(segs[1])
         /\ \A k \in 1..Len(segs[1].disp) : segs[1].disp[k] # RB)
        => IsInsertion(content, Rendered(segs[1], IndexAnswer(NoteTarget(segs[1]))),
                       Fragment(segs[1])))

WantTags ==
    IF cfg.tag_transform.kind = "none" THEN note.tags
    ELSE compose(cfg.tag_transform.steps, note.tags)

(* C10: the document's tags are tagRewriter(original tags), or the original *)
(* tags when no Tag Rewriter is configured; the Frontmatter Rewriter is     *)
(* called only as the last step, with a document that carries the rewritten *)
(* tags, the final content, the referenced images and the missing links.    *)
C10_TagsBeforeFrontmatter ==
    LET final == process([cfg EXCEPT !.frontmatter_transform = NoFm], link_index, note)
    IN /\ pc \in {"tags", "built", "done"} => processed_tags = WantTags
       /\ pc \in {"built", "done"} => processed.tags = WantTags
       /\ pc # "done" => ~fm_call.called
       /\ pc = "done" => (fm_call.called <=> cfg.frontmatter_transform.kind # "none")
       /\ fm_call.called
          => /\ fm_call.processed.tags = WantTags
             /\ fm_call.processed.content = final.content
             /\ Range(fm_call.processed.referenced_images) = final.referenced_images
             /\ fm_call.processed.missing_links = final.missing_links
       /\ (pc = "done" /\ cfg.frontmatter_transform.kind = "hugo" /\ WantTags # <<>>)
          => processed.frontmatter[K_tags] = ListVal(WantTags)

C10_Witness ==
    /\ pc = "done"
    /\ fm_call.called
    /\ cfg.frontmatter_transform.kind = "hugo"
    /\ note.tags = << <<"z">>, <<"x","/","y">> >>
    /\ fm_call.processed.tags = << <<"x","-","y">> >>
    /\ processed.frontmatter[K_tags] = ListVal(<< <<"x","-","y">> >>)

(* C11: with a Tag Rewriter configured, the resolved frontmatter produced   *)
(* with no Frontmatter Rewriter, the identity rewriter or prune-and-add     *)
(* carries no tags entry holding the original tag list when that list       *)
(* differs from the rewritten one.                                          *)
C11_Claim ==
    (/\ pc = "done"
     /\ cfg.tag_transform.kind # "none"
     /\ cfg.frontmatter_transform.kind \in {"none", "identity", "prune_and_add"}
     /\ WantTags # note.tags)
    => ~(/\ K_tags \in DOMAIN processed.frontmatter
         /\ processed.frontmatter[K_tags] = ListVal(note.tags))

(* C12: without a Frontmatter Rewriter the resolved frontmatter equals the  *)
(* original mapping; with one, the rewriter is called with the original     *)
(* mapping and what it returns replaces the resolved frontmatter whole (no  *)
(* original key survives unless returned).  The note's own mapping is the   *)
(* same before, during and after process().                                 *)
C12_FrontmatterReplaced ==
    /\ note.frontmatter = FrontmatterOf(note.tags)
    /\ pc \in {"built", "done"} => processed.metadata.frontmatter = FrontmatterOf(note.tags)
    /\ pc = "built" => processed.frontmatter = FrontmatterOf(note.tags)
    /\ pc = "done"
       => LET k == cfg.frontmatter_transform.kind
          IN IF k = "none"
             THEN ~fm_call.called /\ processed.frontmatter = FrontmatterOf(note.tags)
             ELSE /\ fm_call.called
                  /\ fm_call.fm = FrontmatterOf(note.tags)
                  /\ processed.frontmatter
                       = frontmatter_transform(cfg.frontmatter_transform, fm_call.fm,
                                               fm_call.processed)
                  /\ k = "identity" => processed.frontmatter = FrontmatterOf(note.tags)
                  /\ k = "hugo"
                     => /\ K_k \notin DOMAIN processed.frontmatter
                        /\ DOMAIN processed.frontmatter
                             \subseteq {K_title, K_date, K_doc, K_author, K_tags}

C12_Witness ==
    /\ pc = "done"
    /\ cfg.frontmatter_transform.kind = "hugo"
    /\ cfg.frontmatter_transform.author = <<"m","e">>
    /\ cfg.tag_transform.kind = "none"
    /\ note.frontmatter = (K_k :> StrVal(<<"v">>)) @@ (K_tags :> ListVal(<< <<"x","/","y">> >>))
    /\ processed.frontmatter
         = (K_title :> StrVal(<<"M","y"," ","N">>)) @@ (K_date :> StrVal(<<"2","0","2","5">>))
             @@ (K_doc :> StrVal(<<"2","0","2","4">>)) @@ (K_author :> StrVal(<<"m","e">>))
             @@ (K_tags :> ListVal(<< <<"x","/","y">> >>))

\* i is where a line of s begins
LineStart(s, i) == i = 1 \/ (i \in 2..Len(s) /\ s[i - 1] = "\n")

\* the lines after the first that consist of the delimiter, by where they begin
ClosingLines(s) == { i \in 2..Len(s) : LineStart(s, i) /\ OccursAt(s, DELIM_NL, i) }

\* the body of a text read line by line
LineBody(s) ==
    IF startswith(s, DELIM_NL) /\ ClosingLines(s) # {}
    THEN LET c == CHOOSE i \in ClosingLines(s) : \A j \in ClosingLines(s) : i <= j
         IN Slice(s, c + Len(DELIM_NL), Len(s))
    ELSE s

(* C13: if the raw text opens with a delimiter line and a later delimiter   *)
(* line closes the block, the body is exactly the text after that closing   *)
(* line; if the text does not begin with the delimiter or no closing        *)
(* delimiter line exists, the whole raw text is the body.                   *)
C13_Claim ==
    pc = "extracted" => content = LineBody(note.raw)

\* the keys of a mapping, each at the position given by how many keys come before it
KeysInOrder(fm) ==
    [i \in 1..Cardinality(DOMAIN fm) |->
        CHOOSE k \in DOMAIN fm : Cardinality({ y \in DOMAIN fm : str_lt(y, k) }) = i - 1]

\* s without its trailing newlines
Trimmed(s) ==
    LET n == CHOOSE k \in 0..Len(s) :
                 (k = 0 \/ s[k] # "\n") /\ \A j \in (k + 1)..Len(s) : s[j] = "\n"
    IN SubSeq(s, 1, n)

\* the frontmatter block of a mapping: delimiter line, entries by key, delimiter line
Block(fm) ==
    IF DOMAIN fm = {} THEN <<>>
    ELSE DELIM_NL \o yaml_entries(fm, KeysInOrder(fm)) \o DELIM_NL

OneNewlineAtEnd(s) == endswith(s, <<"\n">>) /\ ~endswith(s, <<"\n", "\n">>)

\* C14 as stated: the output is the block, if the mapping is non-empty, and the body,
\* and it ends with exactly one newline.
C14_Original ==
    output.built =>
        /\ output.text = Block(processed.frontmatter) \o Trimmed(processed.content) \o <<"\n">>
        /\ OneNewlineAtEnd(output.text)

\* C14: the output is the frontmatter block (opening delimiter line, entries in
\* sorted key order, closing delimiter line) when the resolved mapping is
\* non-empty, nothing when it is empty, followed by the content with all its
\* trailing newlines removed and one newline appended; it ends with exactly one
\* newline unless the trimmed content is empty under a non-empty mapping.
C14_BuildOutput ==
    output.built =>
        /\ output.text = Block(processed.frontmatter) \o Trimmed(processed.content) \o <<"\n">>
        /\ DOMAIN processed.frontmatter = {} => ~startswith(output.text, DELIM)
        /\ (Trimmed(processed.content) # <<>> \/ DOMAIN processed.frontmatter = {})
               => OneNewlineAtEnd(output.text)
        /\ (Trimmed(processed.content) = <<>> /\ DOMAIN processed.frontmatter # {})
               => endswith(output.text, DELIM_NL \o <<"\n">>)

C14_Witness ==
    /\ output.built
    /\ cfg.frontmatter_transform.kind = "hugo"
    /\ processed.content = <<"a", RB, "\n", "\n">>
    /\ output.text = <<"-","-","-","\n","d","a","t","e",":"," ","'","2","0","2","5","'","\n","d","o","c",":"," ","'","2","0","2","4","'","\n","t","a","g","s",":","\n","-"," ","z","\n","-"," ","x","/","y","\n","t","i","t","l","e",":"," ","M","y"," ","N","\n","-","-","-","\n","a","]","\n">>


\* C15: for a document whose resolved frontmatter is non-empty, stripping the
\* frontmatter block (step 1 of process) from build_output(document) gives back
\* document.content.
C15_Claim ==
    (output.built /\ DOMAIN processed.frontmatter # {})
        => _extract_content(output.text) = processed.content

\* two characters equal but for letter case
CaseEq(c, d) == c = d \/ \E i \in 1..26 : {c, d} = {UpperLetters[i], LowerLetters[i]}

\* two titles equal ignoring letter case
SameTitle(a, b) == Len(a) = Len(b) /\ \A i \in 1..Len(a) : CaseEq(a[i], b[i])

\* the (title, identifier) entries the index was built from, in input order
IndexEntries == [i \in 1..Len(link_index.slug_to_title) |->
                    <<link_index.slug_to_title[i][2], link_index.slug_to_title[i][1]>>]

\* the identifier of the last entry with title t, letter case ignored
LastEntry(t) ==
    LET hits == { i \in 1..Len(IndexEntries) : SameTitle(IndexEntries[i][1], t) }
    IN IF hits = {} THEN NotFound
       ELSE [found |-> TRUE,
             slug |-> IndexEntries[CHOOSE i \in hits : \A j \in hits : j <= i][2]]

LookupTitles == IndexTitles \cup { segs[i].target : i \in 1..Len(segs) }

\* C16: get_slug(t) is the identifier of the last entry of the input sequence whose
\* title equals t ignoring letter case, and not-found when there is none; the
\* wikilink pass renders a link with that identifier, or records the target as
\* missing.
C16_LastWriteWins ==
    /\ \A t \in LookupTitles : get_slug(link_index, t) = LastEntry(t)
    /\ (pc \in AfterLinks /\ Len(segs) = 1 /\ segs[1] \in LookupSegs) =>
           LET t == segs[1].target
           IN IF LastEntry(t).found
              THEN content = relative_link(t, LastEntry(t).slug) /\ missing_links = <<>>
              ELSE content = relative_link(t, parameterize(t)) /\ missing_links = <<t>>

C16_Witness ==
    /\ pc = "links"
    /\ IndexEntries = << <<S_Ab, <<"n","1">> >>, <<S_Zz, <<"n","1">> >>, <<S_ab, <<"n","2">> >> >>
    /\ segs = << Link(<<"A","B">>, <<>>) >>
    /\ content = <<LB,"A","B",RB,"(","n","2",".","m","d",")">>

HasAny(s, cs) == \E k \in 1..Len(s) : s[k] \in cs

\* the identifier a wikilink to t is rendered with: the index entry, else normalize(t)
SlugFor(t) == IF LastEntry(t).found THEN LastEntry(t).slug ELSE parameterize(t)

\* C17: a wikilink [[target|display]] whose display text contains "]" or "|" is one
\* link: the content holds the Link Renderer's output for the whole display text
\* (everything between the first "|" and the closing "]]") and the target's
\* identifier.
C17_Claim ==
    \A i \in 1..Len(segs) :
        (/\ pc \in AfterLinks
         /\ segs[i].kind = "link" /\ ~segs[i].hasSec
         /\ HasAny(segs[i].disp, {RB, "|"}))
        => Contains(content,
                    link_transform(cfg.link_transform, segs[i].disp, SlugFor(strip(segs[i].target))))

\* C18: a wikilink whose target contains a single "]" and is a title of the index is
\* rewritten to the rendered link with the full target as display text and the index
\* entry of the full target as identifier.
C18_Claim ==
    \A i \in 1..Len(segs) :
        (/\ pc \in AfterLinks
         /\ segs[i].kind = "link" /\ segs[i].disp = <<>>
         /\ Count(segs[i].target, RB) = 1
         /\ LastEntry(segs[i].target).found)
        => Contains(content,
                    link_transform(cfg.link_transform, segs[i].target,
                                   LastEntry(segs[i].target).slug))

\* C19: an image embed whose file name contains a single "]", or whose alt text
\* contains brackets, is an image embed: its target is in referenced_images and the
\* normalized alt text (the normalized base name when no alt is given) is in the
\* rewritten markup.
C19_Claim ==
    \A i \in 1..Len(segs) :
        (/\ pc \in {"images", "links", "tags", "built", "done"}
         /\ IsEmbed(segs[i])
         /\ (Count(segs[i].base, RB) = 1 \/ HasAny(segs[i].disp, {LB, RB})))
        => /\ segs[i].target \in referenced_images
           /\ Contains(content,
                       <<"!", LB>> \o parameterize(StrOr(segs[i].disp, segs[i].base)) \o <<RB, "(">>)

\* the keys prune-and-add lets through: the allow-list if given, else all but the
\* deny-list if given, else all
KeptKeys(t, fm) ==
    IF t.keep_keys.given THEN DOMAIN fm \cap t.keep_keys.keys
    ELSE IF t.remove_keys.given THEN DOMAIN fm \ t.remove_keys.keys
    ELSE DOMAIN fm

\* C20: the result of prune_and_add(keep_keys, remove_keys, add_fields) has the input
\* entries whose key is in keep_keys if keep_keys is given (also when remove_keys is
\* given), else those whose key is not in remove_keys, else all of them, and then
\* every add_fields entry, which overrides an input entry of the same key; the input
\* mapping is as it was.
C20_PruneAndAdd ==
    (pc = "done" /\ cfg.frontmatter_transform.kind = "prune_and_add") =>
        LET t == cfg.frontmatter_transform
            fm == fm_call.fm
            out == processed.frontmatter
        IN /\ fm_call.called
           /\ DOMAIN out = KeptKeys(t, fm) \cup DOMAIN t.add_fields
           /\ \A k \in DOMAIN out :
                  out[k] = IF k \in DOMAIN t.add_fields THEN t.add_fields[k] ELSE fm[k]
           /\ fm = FrontmatterOf(note.tags)
           /\ note.frontmatter = FrontmatterOf(note.tags)

C20_Witness ==
    /\ pc = "done"
    /\ cfg.frontmatter_transform.kind = "prune_and_add"
    /\ cfg.frontmatter_transform.keep_keys = Keys(TRUE, {K_k, K_tags})
    /\ cfg.frontmatter_transform.remove_keys = Keys(TRUE, {K_tags})
    /\ cfg.frontmatter_transform.add_fields = (K_k :> StrVal(<<"w">>))
    /\ note.tags = << <<"z">>, <<"x","/","y">> >>
    /\ processed.frontmatter = (K_k :> StrVal(<<"w">>)) @@ (K_tags :> ListVal(note.tags))

\* a prune-and-add rewriter given both an allow-list and a deny-list
Conflicting(t) == t.kind = "prune_and_add" /\ t.keep_keys.given /\ t.remove_keys.given

\* C21: a prune-and-add rewriter configured with both an allow-list and a deny-list
\* fails when it is constructed: no processor holds one, and none is ever applied to
\* a document.
C21_Claim == Conflicting(cfg.frontmatter_transform) => ~fm_call.called

\* C22: the Hugo rewriter returns a mapping whose keys are exactly title, date and
\* doc, author iff an author is configured, tags iff the document's rewritten tag
\* list is non-empty; date and doc are the note's publication and creation date
\* strings, tags is the rewritten tag list, and no original key is carried over.
C22_HugoShape ==
    (pc = "done" /\ cfg.frontmatter_transform.kind = "hugo") =>
        LET out == processed.frontmatter
            author == cfg.frontmatter_transform.author
        IN /\ DOMAIN out = {K_title, K_date, K_doc}
                              \cup (IF author # <<>> THEN {K_author} ELSE {})
                              \cup (IF WantTags # <<>> THEN {K_tags} ELSE {})
           /\ out[K_date] = StrVal(note.publication_date)
           /\ out[K_doc] = StrVal(note.creation_date)
           /\ out[K_title].t = "str"
           /\ author # <<>> => out[K_author] = StrVal(author)
           /\ WantTags # <<>> => out[K_tags] = ListVal(WantTags)
           /\ DOMAIN fm_call.fm \cap DOMAIN out \subseteq {K_tags}
           /\ K_k \in DOMAIN fm_call.fm /\ K_k \notin DOMAIN out

C22_Witness ==
    /\ pc = "done"
    /\ cfg.frontmatter_transform.kind = "hugo"
    /\ cfg.frontmatter_transform.author = <<"m","e">>
    /\ note.tags = << <<"z">>, <<"x","/","y">> >>
    /\ processed.frontmatter =
           (K_title :> StrVal(<<"M","y"," ","N">>)) @@ (K_date :> StrVal(<<"2","0","2","5">>))
             @@ (K_doc :> StrVal(<<"2","0","2","4">>)) @@ (K_author :> StrVal(<<"m","e">>))
             @@ (K_tags :> ListVal(<< <<"x","-","y">> >>))

\* the keys of a dict kept as its assignments
DictKeys(d) == { d[i][1] : i \in 1..Len(d) }

\* slug_to_title[s]
TitleOf(s) == dict_get(link_index.slug_to_title, s).slug

\* every title key of title_to_slug maps to a key of slug_to_title
SlugsKnown ==
    \A t \in DictKeys(link_index.title_to_slug) :
        dict_get(link_index.title_to_slug, t).slug \in DictKeys(link_index.slug_to_title)

\* no two entries whose titles are equal ignoring letter case carry different identifiers
NoClash ==
    \A i, j \in 1..Len(IndexEntries) :
        SameTitle(IndexEntries[i][1], IndexEntries[j][1]) => IndexEntries[i][2] = IndexEntries[j][2]

\* C28 as stated: for every identifier s of slug_to_title, get_slug(slug_to_title[s])
\* is s, and every value of title_to_slug is a key of slug_to_title, whatever the
\* input.
C28_Original ==
    /\ \A s \in DictKeys(link_index.slug_to_title) :
           get_slug(link_index, TitleOf(s)) = [found |-> TRUE, slug |-> s]
    /\ SlugsKnown

\* C28: for every identifier s of slug_to_title, get_slug(slug_to_title[s]) is found
\* and is the identifier of the last input entry with that title, letter case
\* ignored; it is s when no two entries with titles equal ignoring case carry
\* different identifiers.  Every value of title_to_slug is a key of slug_to_title.
C28_Consistent ==
    /\ \A s \in DictKeys(link_index.slug_to_title) :
           /\ get_slug(link_index, TitleOf(s)).found
           /\ get_slug(link_index, TitleOf(s)) = LastEntry(TitleOf(s))
           /\ NoClash => get_slug(link_index, TitleOf(s)).slug = s
    /\ SlugsKnown

C28_Witness ==
    /\ IndexEntries = << <<S_Ab, <<"n","1">> >>, <<S_Zz, <<"n","1">> >>, <<S_ab, <<"n","1">> >> >>
    /\ NoClash
    /\ TitleOf(<<"n","1">>) = S_ab
    /\ pc = "links"
    /\ segs = << Link(S_Ab, <<>>) >>
    /\ content = <<LB,"A","b",RB,"(","n","1",".","m","d",")">>

\* C29: every entry of missing_links is a non-empty note-target that is the target of
\* a wikilink of the body and is no title of the index; a section-only link adds no
\* entry.  Stated for bodies made of wikilinks only.
C29_Claim ==
    (pc \in AfterLinks /\ \A i \in 1..Len(segs) : segs[i].kind = "link") =>
        \A k \in 1..Len(missing_links) :
            /\ missing_links[k] # <<>>
            /\ \E i \in 1..Len(segs) : NoteTarget(segs[i]) = missing_links[k]
            /\ ~LastEntry(missing_links[k]).found

\* s is a str: a finite sequence of single characters
IsStr(s) == /\ DOMAIN s = 1..Len(s)
            /\ \A i \in 1..Len(s) : s[i] = "\n" \/ \E k \in 1..Len(Ascii) : Ascii[k] = s[i]

\* d is a ProcessedDocument made from note n
IsDocument(d, n) ==
    /\ d.metadata = n
    /\ IsStr(d.content)
    /\ d.frontmatter = n.frontmatter
    /\ d.tags = n.tags
    /\ \A f \in d.referenced_images : IsStr(f)
    /\ DOMAIN d.missing_links = 1..Len(d.missing_links)
    /\ \A k \in 1..Len(d.missing_links) : IsStr(d.missing_links[k])

\* C24: process() never raises on malformed or unresolved syntax: for every such note
\* and index the call as a whole has a result, a ProcessedDocument, and the call that
\* has come to its end has returned that document.
C24_NeverRaises ==
    /\ pc = "start" => IsDocument(process(cfg, link_index, note), note)
    /\ pc = "done" =>
           /\ IsDocument([processed EXCEPT !.referenced_images = Range(@)], note)
           /\ [processed EXCEPT !.referenced_images = Range(@)] = process(cfg, link_index, note)

C24_Witness ==
    /\ pc = "done"
    /\ note.raw = DELIM_NL \o <<"k",":"," ","v","\n">> \o <<LB, LB, "#", "S", " ", "t", RB, RB, RB, RB>>
    /\ link_index = from_dict(<<>>)
    /\ processed.content = DELIM_NL \o <<"k",":"," ","v","\n">>
                               \o <<LB, RB, "(", ".", "m", "d", "#", "s", "-", "t", ")", RB, RB>>
    /\ processed.missing_links = << <<>> >>

\* the document of a call, its image list taken as the set it is made from
AsSet(d) == [d EXCEPT !.referenced_images = Range(@)]

\* C23: process() calls are independent: no step of either call changes the Link
\* Index, the processor or a note, and under every interleaving each call that has
\* come to its end has returned the document process() gives for its note alone.
C23_Independent ==
    [][ /\ link_index' = link_index
        /\ cfg' = cfg
        /\ note' = note
        /\ other'.note = other.note
        /\ pc' = "done" => AsSet(processed') = process(cfg, link_index, note)
        /\ other'.pc = "done" => AsSet(other'.processed) = process(cfg, link_index, other.note)
      ]_vars

\* both calls have returned, one note with a missing link, the other with an image: the
\* first document holds no image, the second no missing link
C23_Witness ==
    /\ pc = "done" /\ other.pc = "done"
    /\ segs = << Link(S_Zz, <<>>) >>
    /\ other.note.raw = Header \o BodyOf(<< Embed(<<>>, S_p, S_png, <<>>) >>)
    /\ processed.missing_links = << S_Zz >>
    /\ processed.referenced_images = <<>>
    /\ other.processed.missing_links = <<>>
    /\ other.processed.referenced_images = << S_p \o S_png >>

\* C30: with the built-in renderers, the image pass and then the wikilink pass applied
\* to content that process() returned leave it as it is and find no image and no
\* missing link: no rewritten markup, alone or next to leftover text, is an embed or
\* a wikilink.
C30_Idempotent ==
    (cfg.link_transform.kind \in BuiltInRenderers /\ other.pc \in {"images", "links"}) =>
        /\ other.content = processed.content
        /\ other.referenced_images = {}
        /\ other.missing_links = <<>>

\* both passes have run again over what process() made of "[" "[[Zz|[x]]": the stray
\* bracket became part of the target, and the markup starts with two brackets
C30_Witness ==
    /\ other.pc = "links"
    /\ segs = << Text(<<LB>>), Link(S_Zz, <<LB, "x">>) >>
    /\ cfg.link_transform.kind = "relative"
    /\ processed.missing_links = << <<LB>> \o S_Zz >>
    /\ OccursAt(processed.content, <<LB, LB, "x", RB, "(">>, 1)
    /\ other.content = processed.content

-----------------------------------------------------------------------------
(* Discovery.                                                               *)

\* the file has a frontmatter block that is no valid YAML
InvalidYaml(f) ==
    /\ startswith(f.text, DELIM)
    /\ FrontmatterBlock(f.text).found
    /\ ~yaml_safe_load(FrontmatterBlock(f.text).text).ok

\* the paths of the notes the call returned
Returned == { discovery.notes[i].path : i \in 1..Len(discovery.notes) }

VaultFileSet == { discovery.files[i] : i \in 1..Len(discovery.files) }

\* C25: a file whose frontmatter block is no valid YAML is never returned by get_note
\* or discover_all, the object keeps a list `errors` for such files, and the
\* constructor takes fail_fast.
C25_Claim ==
    discovery.op \in {"get_note", "discover_all"} =>
        \A f \in VaultFileSet :
            InvalidYaml(f) => /\ PathOf(f) \notin Returned
                              /\ "errors" \in discovery.attributes
                              /\ "fail_fast" \in Parameters

\* C26: get_note returns None for a name whose extension is not .md.
C26_Claim ==
    (discovery.op = "get_note" /\ PathSuffix(discovery.arg) \notin { <<>>, <<".", "m", "d">> }) =>
        discovery.notes = <<>>

\* the tags of the note the call was about
NoteTags == { discovery.notes[1].tags[i] : i \in 1..Len(discovery.notes[1].tags) }

\* what the filters ask of a set of tags
PassesRequired(tags) == discovery.required_tags = {} \/ discovery.required_tags \cap tags # {}
PassesExcluded(tags) == discovery.excluded_tags \cap tags = {}

\* is_publishable answers (True, "OK") exactly for notes that pass both filters, and
\* names the required tags for a note that fails both
IsPublishableExact ==
    discovery.op = "is_publishable" =>
        /\ discovery.verdict.ok <=> (PassesRequired(NoteTags) /\ PassesExcluded(NoteTags))
        /\ discovery.verdict.ok <=> discovery.verdict.reason = "OK"
        /\ (~PassesRequired(NoteTags) /\ ~PassesExcluded(NoteTags)) =>
               discovery.verdict.reason = "Missing required tags"

\* the file parses: its frontmatter, if any, is valid YAML and metadata can be made of it
Parseable(f) == ~InvalidYaml(f) /\ _get_note_metadata(f) # <<>>

\* the tags written in a file that parses
TagsOf(f) == { _get_note_metadata(f)[1].tags[i] : i \in 1..Len(_get_note_metadata(f)[1].tags) }

\* C27: is_publishable is exact, and discover_all returns exactly the parseable *.md
\* notes directly inside the existing source directories that pass the filters.
C27_Claim ==
    /\ IsPublishableExact
    /\ (discovery.op = "discover_all" /\ discovery.raised = "") =>
           Returned = { PathOf(f) : f \in { g \in VaultFileSet :
                           /\ \E i \in 1..Len(discovery.source_dirs) :
                                  discovery.source_dirs[i] = g.dir /\ g.dir \in ExistingDirs
                           /\ endswith(g.name, <<".", "m", "d">>)
                           /\ Parseable(g)
                           /\ PassesRequired(TagsOf(g))
                           /\ PassesExcluded(TagsOf(g)) } }

=============================================================================
